---- MODULE Spec2Model ----
(***************************************************************************)
(* Restinfront's Model class: the fetch lifecycle of one live instance     *)
(* (an Entity or a Collection) and the in-place merge of server responses. *)
(*                                                                         *)
(* The repository holds three revisions of the class.  All three are       *)
(* modelled; the variable rev says which one runs:                         *)
(*   "model_js"  src/src/model.js       ($modelize, fetchSuccess, ...)     *)
(*   "part_005"  src/unnamed/part_005   ($restinfront, getSucceeded, ...)  *)
(*   "part_004"  src/unnamed/part_004   ($state, $fetch, RestinfrontError) *)
(***************************************************************************)
EXTENDS Integers, Sequences, FiniteSets, TLC

(***************************************************************************)
(* Bounds of the model.                                                    *)
(***************************************************************************)
MaxCalls == 2      \* calls of fetch() made on the instance in one behaviour
MaxRows == 2       \* records in one response
BigCount == 10     \* a server-reported grand total larger than any page
TickStep == 20     \* time units that pass in one step of the clock
PageLimit == 2     \* the limit the application asks for
PageOffset == 4    \* the offset the application asks for
MaxOffset == 10    \* no getMore() is made from this offset on

(***************************************************************************)
(* Program constants.                                                      *)
(***************************************************************************)
ABORT_DELAY == 20  \* setTimeout(() => abortController.abort(), 20000)
DEFAULT_LIMIT == 20   \* searchParams.limit of a collection get() given none
DEFAULT_OFFSET == 0   \* searchParams.offset of a collection get() given none

Revisions == {"model_js", "part_005", "part_004"}
Calls == 1..MaxCalls
GetMethods == {"GET"}
SaveMethods == {"POST", "PUT", "PATCH"}

VARIABLES
  rev,             \* the revision of the class that runs
  authentication,  \* static config: is an authentication provider configured
  kind,            \* what the constructor was given: "entity" | "collection"
  inst,            \* own data properties of the instance: name -> value
  heap,            \* nested association objects: reference -> properties
  validator,       \* $validator of the entity: fieldname -> checked
  state,           \* fetch-state flags of the instance: property -> BOOLEAN
  fetchRec,        \* $fetch: the remembered options and response
  calls,           \* one record per call of fetch(): position and locals
  consumed,        \* responses whose body stream json() has started reading
  baseUrl,         \* static baseUrl: '' until configured
  endpoint,        \* static endpoint: '' until configured
  primaryKeyType,  \* the type of the primary key field: "string" | "number"
  lastCall,        \* the last synchronous call on the instance and its outcome
  schema,          \* static schema: fieldname -> the field as init() left it
  errors,          \* what the last _getValidationErrors() returned
  serialized,      \* what the last serialization of the entity returned
  FieldTypes       \* the class FieldTypes: its own properties

vars == <<rev, authentication, kind, inst, heap, validator, state, fetchRec,
          calls, consumed, baseUrl, endpoint, primaryKeyType, lastCall,
          schema, errors, serialized, FieldTypes>>

\* what no action of fetch() touches
statics == <<baseUrl, endpoint, primaryKeyType, schema, errors, serialized, FieldTypes>>

(***************************************************************************)
(* JavaScript objects are functions from own property names to values.     *)
(***************************************************************************)
Put(obj, key, value) ==
  [k \in (DOMAIN obj) \cup {key} |-> IF k = key THEN value ELSE obj[k]]

\* has(object, key): Object.prototype.hasOwnProperty.call(object, key)
has(object, key) == key \in DOMAIN object

\* a flag an observer reads as true / as false (an absent property is neither)
IsTrue(key) == has(state, key) /\ state[key]
IsFalse(key) == has(state, key) /\ ~state[key]

(***************************************************************************)
(* The fetch-state block each constructor builds.                          *)
(***************************************************************************)
\* src/src/model.js: this.$modelize.states
constructor_model_js(k) ==
  IF k = "entity"
  THEN [fetchInProgress |-> FALSE, fetchSuccessOnce |-> FALSE,
        fetchSuccess |-> FALSE, fetchFailure |-> FALSE,
        saveInProgress |-> FALSE, saveSuccess |-> FALSE, saveFailure |-> FALSE]
  ELSE [fetchInProgress |-> FALSE, fetchSuccessOnce |-> FALSE,
        fetchSuccess |-> FALSE, fetchFailure |-> FALSE]

\* part_005: this.$restinfront.fetch.get*, and for an entity
\* this.$restinfront.save* (beside the fetch block, not in it)
constructor_part_005(k) ==
  LET fetchBlock == ("fetch.getProgressing" :> FALSE) @@
                    ("fetch.getSucceededOnce" :> FALSE) @@
                    ("fetch.getSucceeded" :> FALSE) @@
                    ("fetch.getFailed" :> FALSE)
  IN IF k = "entity"
     THEN fetchBlock @@ [saveProgressing |-> FALSE, saveSucceeded |-> FALSE,
                         saveFailed |-> FALSE]
     ELSE fetchBlock

\* part_004: this.$state
constructor_part_004(k) ==
  LET base == [inprogress |-> FALSE, success |-> FALSE, failure |-> FALSE] @@
              ("immutable.success" :> FALSE) @@
              ("get.inprogress" :> FALSE) @@ ("get.success" :> FALSE) @@
              ("get.failure" :> FALSE)
  IN IF k = "entity"
     THEN base @@ ("save.inprogress" :> FALSE) @@ ("save.success" :> FALSE) @@
                  ("save.failure" :> FALSE)
     ELSE base

constructor_state(r, k) ==
  CASE r = "model_js" -> constructor_model_js(k)
    [] r = "part_005" -> constructor_part_005(k)
    [] r = "part_004" -> constructor_part_004(k)

(***************************************************************************)
(* The properties fetch() writes, per revision and track.                  *)
(*   entry:   on entering fetch                                            *)
(*   failure: in the catch block                                           *)
(*   success: where the track is set to succeeded                          *)
(*   once:    the latch written on success                                 *)
(***************************************************************************)
keys_model_js ==
  [entry |-> [get |-> [inProgress |-> "fetchInProgress", failed |-> "fetchFailure",
                       succeeded |-> "fetchSuccess"],
              save |-> [inProgress |-> "saveInProgress", failed |-> "saveFailure",
                        succeeded |-> "saveSuccess"]],
   failure |-> [get |-> [inProgress |-> "fetchInProgress", failed |-> "fetchFailure"],
                save |-> [inProgress |-> "saveInProgress", failed |-> "saveFailure"]],
   success |-> [get |-> [inProgress |-> "fetchInProgress", succeeded |-> "fetchSuccess"],
                save |-> [inProgress |-> "saveInProgress", succeeded |-> "saveSuccess"]],
   once |-> "fetchSuccessOnce"]

keys_part_005 ==
  [entry |-> [get |-> [inProgress |-> "fetch.getProgressing", failed |-> "fetch.getFailed",
                       succeeded |-> "fetch.getSucceeded"],
              save |-> [inProgress |-> "fetch.saveProgressing", failed |-> "fetch.saveFailed",
                        succeeded |-> "fetch.saveSucceeded"]],
   failure |-> [get |-> [inProgress |-> "fetch.getProgressing", failed |-> "fetch.getFailed"],
                save |-> [inProgress |-> "saveProgressing", failed |-> "saveFailed"]],
   success |-> [get |-> [inProgress |-> "fetch.getProgressing", succeeded |-> "fetch.getSucceeded"],
                save |-> [inProgress |-> "fetch.saveProgressing", succeeded |-> "fetch.saveSucceeded"]],
   once |-> "fetch.getSucceededOnce"]

keys_part_004 ==
  [entry |-> [get |-> [inProgress |-> "get.inprogress", failed |-> "get.failure",
                       succeeded |-> "get.success"],
              save |-> [inProgress |-> "save.inprogress", failed |-> "save.failure",
                        succeeded |-> "save.success"]],
   failure |-> [get |-> [inProgress |-> "get.inprogress", failed |-> "get.failure"],
                save |-> [inProgress |-> "save.inprogress", failed |-> "save.failure"]],
   success |-> [get |-> [inProgress |-> "get.inprogress", succeeded |-> "get.success"],
                save |-> [inProgress |-> "save.inprogress", succeeded |-> "save.success"]],
   once |-> "successOnce"]

keys(r) ==
  CASE r = "model_js" -> keys_model_js
    [] r = "part_005" -> keys_part_005
    [] r = "part_004" -> keys_part_004

Track(method) == IF method = "GET" THEN "get" ELSE "save"

(***************************************************************************)
(* What an observer of the instance reads: the getters of model.js and     *)
(* part_005, and $state.get / $state.save of part_004.                     *)
(***************************************************************************)
getters(r) == keys(r).entry

inProgress(track) == IsTrue(getters(rev)[track].inProgress)
succeeded(track) == IsTrue(getters(rev)[track].succeeded)
failed(track) == IsTrue(getters(rev)[track].failed)

\* the latch the constructor declares: fetchSuccessOnce, getSucceededOnce,
\* $state.immutable.success
latch(r) ==
  CASE r = "model_js" -> "fetchSuccessOnce"
    [] r = "part_005" -> "fetch.getSucceededOnce"
    [] r = "part_004" -> "immutable.success"

succeededOnce == IsTrue(latch(rev))

(***************************************************************************)
(* Construction.  An entity has the schema fields name (a scalar) and      *)
(* profile (a HasOne association: a reference to a nested entity on the    *)
(* heap); a collection has its item list and its total count.              *)
(***************************************************************************)
AssociationFields == {"profile"}
SchemaFields == {"name", "profile"}

\* this.$validator = this.constructor._buildValidator(): checked = autoChecked
_buildValidator == [f \in SchemaFields |-> FALSE]

NoFetch == [options |-> 0, response |-> 0]

\* options.searchParams of a request made without search parameters
NoSearchParams == [key \in {} |-> 0]

NoCall == [pc |-> "idle", method |-> "GET", extend |-> FALSE, pathname |-> "",
           searchParams |-> NoSearchParams, status |-> "none",
           shape |-> "none", nrows |-> 0, count |-> 0, timer |-> "unset",
           elapsed |-> 0, hooks |-> 0, bodyOf |-> 0, readable |-> TRUE]

\* get isCollection
isCollection ==
  IF rev = "part_004" THEN has(inst, "items") ELSE kind = "collection"

\* get length, get hasMore
length == Len(inst["items"])
hasMore == length < inst["$count"]

\* the options of a call made without options
NoOptions == [key \in {} |-> 0]

\* new Model(data, options) for an array: $count = 0, the empty list, add()
\* for every item (push, count + 1), then the count of the options if any
constructor_collection(data, options) ==
  LET added == [items |-> data] @@ ("$count" :> Len(data))
  IN IF has(options, "count") THEN Put(added, "$count", options["count"])
     ELSE added

\* a call on the instance: what it was given, what it returned or threw
Call(op, data, options, ref, result, thrown) ==
  [op |-> op, data |-> data, options |-> options, ref |-> ref,
   result |-> result, thrown |-> thrown]

NoRef == [type |-> "none", item |-> 0]
Undefined == [type |-> "undefined", items |-> <<>>, bool |-> FALSE]

\* new Model(data, options) has returned the instance
Constructor(data, options) ==
  Call("constructor", data, options, NoRef, Undefined, "none")

\* static primaryKeyFieldname: the schema field declared primaryKey
primaryKeyFieldname == "name"

(***************************************************************************)
(* Schemas and the construction of entities.                               *)
(*                                                                         *)
(* A scalar value is written as its JavaScript literal ("''", "'Ann'",     *)
(* "0", "null"); the value of an association field is a record: null, a    *)
(* plain object or array as the application or the server gives it, or the *)
(* entity or collection beforeBuild makes of it.  An entity is its own     *)
(* fields and the checked flags of its validator.                          *)
(***************************************************************************)
Strings == {"''", "'Ann'", "'Bob'", "'uuid-1'", "'uuid-2'"}
AssociationTypes == {"HASONE", "BELONGSTO", "HASMANY"}

\* what a field of a raw schema says, and what init() makes of it: the
\* default of the type, blank refused, every value accepted, and checked
\* from the start for the primary key and the timestamps only (no schema
\* of the model gives defaultValue or autoChecked itself)
init(fields) ==
  [f \in DOMAIN fields |->
     LET fieldconf == fields[f]
         isPrimaryKey == has(fieldconf, "primaryKey") /\ fieldconf.primaryKey
     IN [type |-> fieldconf.type,
         primaryKey |-> isPrimaryKey,
         allowBlank |-> IF has(fieldconf, "allowBlank") THEN fieldconf.allowBlank
                        ELSE FALSE,
         isValid |-> IF has(fieldconf, "isValid") THEN fieldconf.isValid
                     ELSE "() => true",
         autoChecked |-> isPrimaryKey \/ f \in {"createdAt", "updatedAt"}]]

\* the schema of the model the association field refers to
Profile == init([name |-> [type |-> "UUID", primaryKey |-> TRUE],
                 bio |-> [type |-> "STRING"]])

\* this.$validator = this.constructor._buildValidator(), the checked flags
_buildValidator_of(sch) == [f \in DOMAIN sch |-> sch[f].autoChecked]

RECURSIVE _buildRawItem(_, _)
\* defaults that do not pass the primary key of the owner on
defaultValue_ownKey(sch, type, primaryKey) ==
  CASE type = "STRING" -> "''"
    [] type = "UUID" -> IF sch = Profile THEN "'uuid-2'" ELSE "'uuid-1'"
    [] type = "HASMANY" -> [type |-> "array", items |-> <<>>]
    [] type \in {"HASONE", "BELONGSTO"} ->
         [type |-> "object",
          items |-> <<_buildRawItem(Profile, [key \in {} |-> ""])>>]

\* fieldconf.defaultValue(primaryKey) of a field of the given type; each
\* crypto.randomUUID() is a value no other call gives
defaultValue(sch, type, primaryKey) ==
  CASE type = "STRING" -> "''"
    [] type = "UUID" -> IF sch = Profile THEN "'uuid-2'" ELSE "'uuid-1'"
    [] type = "HASMANY" -> [type |-> "array", items |-> <<>>]
    [] type = "HASONE" ->
         [type |-> "object",
          items |-> <<_buildRawItem(Profile, [primaryKey |-> primaryKey])>>]
    [] type = "BELONGSTO" ->
         [type |-> "object",
          items |-> <<_buildRawItem(Profile, [key \in {} |-> ""])>>]

\* static _buildRawItem(item): the primary key is the first truthy one of
\* item.primaryKey, item[primaryKeyFieldname] and the default
_buildRawItem(sch, item) ==
  LET Falsy == {"''", "0", "null", "undefined"}
      Get(key) == IF has(item, key) THEN item[key] ELSE "undefined"
      Or(a, b) == IF a \notin Falsy THEN a ELSE b
      pkDefault == defaultValue(sch, sch[primaryKeyFieldname].type, "undefined")
      primaryKey_ == Or(Get("primaryKey"), Or(Get(primaryKeyFieldname), pkDefault))
  IN [fieldname \in DOMAIN sch |->
        IF fieldname = primaryKeyFieldname THEN primaryKey_
        ELSE IF has(item, fieldname) THEN item[fieldname]
        ELSE defaultValue(sch, sch[fieldname].type, primaryKey_)]

\* options.isNew ?? true
isNewOf(options) == IF has(options, "isNew") THEN options.isNew ELSE TRUE

\* new Model(data, options) for an object of the associated model
RECURSIVE build_entity(_, _, _)
\* type.beforeBuild(value, options): scalars as they are, an association
\* null for a falsy value and else an instance of the associated model
beforeBuild(type, value, options) ==
  IF type \notin AssociationTypes THEN value
  ELSE CASE value.type = "null" -> value
         [] value.type \in {"entity", "collection"} -> value
         [] value.type = "object" ->
              [type |-> "entity",
               items |-> <<build_entity(Profile, value.items[1], options)>>]
         [] value.type = "array" ->
              [type |-> "collection",
               items |-> [i \in DOMAIN value.items |->
                            build_entity(Profile, value.items[i], options)]]

\* new Model(data, options) for an object: the validator, the raw item of a
\* new instance, and beforeBuild for the fields the schema knows
build_entity(sch, data, options) ==
  LET raw == IF isNewOf(options) THEN _buildRawItem(sch, data) ELSE data
  IN [fields |-> [fieldname \in DOMAIN raw |->
                    IF has(sch, fieldname)
                    THEN beforeBuild(sch[fieldname].type, raw[fieldname], options)
                    ELSE raw[fieldname]],
      checked |-> _buildValidator_of(sch)]

\* the fields of the model the instance belongs to: the primary key, a
\* scalar field and an association field
User(primaryKeyType_, title, association) ==
  [name |-> [type |-> primaryKeyType_, primaryKey |-> TRUE],
   title |-> title,
   profile |-> [type |-> association]]

(***************************************************************************)
(* The registry of field types: the own properties of the class            *)
(* FieldTypes.  A descriptor is its members, each named by the function it *)
(* holds, and whether the value is itself a function (the factory of an    *)
(* association type, or a static method of the class).                     *)
(***************************************************************************)
FIELDTYPES_PRESETS ==
  [STRING |-> [callable |-> FALSE,
               members |-> [defaultValue |-> "() => ''",
                            isBlank |-> "(value) => value === ''",
                            isValid |-> "(value) => isString(value)"]],
   PHONE |-> [callable |-> FALSE,
              members |-> [defaultValue |-> "() => ''",
                           isBlank |-> "(value) => value === ''",
                           isValid |-> "(value) => isString(value)",
                           beforeSerialize |-> "sanitizedPhone"]],
   HASONE |-> [callable |-> TRUE, members |-> [m \in {} |-> ""]]]

\* the static methods of the class
StaticMethods ==
  [m \in {"add", "override"} |-> [callable |-> TRUE, members |-> [k \in {} |-> ""]]]

\* static add(name, options) on the own properties of the class: a function
\* is stored as it is and an object as a copy, and the two optional members
\* default to the identity
add_fieldtype(own, name, options) ==
  LET identity == "(value) => value"
      withSerialize == IF has(options.members, "beforeSerialize") THEN options.members
                       ELSE Put(options.members, "beforeSerialize", identity)
      withBuild == IF has(options.members, "beforeBuild") THEN withSerialize
                   ELSE Put(withSerialize, "beforeBuild", identity)
  IN Put(own, name, [callable |-> options.callable, members |-> withBuild])

\* the static initialization block: add() for every preset.  add() calls
\* isFunction, which the file neither imports nor declares: where no global
\* of that name exists the first add() throws and the class is never bound
static_block(isFunctionResolves) ==
  IF isFunctionResolves
  THEN [loaded |-> TRUE,
        own |-> add_fieldtype(add_fieldtype(add_fieldtype(StaticMethods,
                  "STRING", FIELDTYPES_PRESETS.STRING),
                  "PHONE", FIELDTYPES_PRESETS.PHONE),
                  "HASONE", FIELDTYPES_PRESETS.HASONE)]
  ELSE [loaded |-> FALSE, own |-> [n \in {} |-> 0]]

\* no validation has returned and no request body has been built yet
NoErrors == [null |-> TRUE, tree |-> [f \in {} |-> 0]]
NoBody == [f \in {} |-> 0]

\* the class as the application configures it
Configured ==
  /\ baseUrl = "https://api"
  /\ endpoint = "users"
  /\ primaryKeyType = "string"

\* the instance new Model(...) returns
Built ==
  /\ rev \in Revisions
  /\ authentication \in BOOLEAN
  /\ kind \in {"entity", "collection"}
  /\ \/ /\ kind = "entity"
        /\ \E isNew \in BOOLEAN :
             inst = ("$isNew" :> isNew) @@ [name |-> 0, profile |-> 0]
        /\ heap = (0 :> (("$isNew" :> TRUE) @@ [bio |-> 0]))
        /\ validator = _buildValidator
     \/ /\ kind = "collection"
        /\ inst = constructor_collection(<<>>, NoOptions)
        /\ heap = [r \in {} |-> 0]
        /\ validator = [f \in {} |-> FALSE]
  /\ state = constructor_state(rev, kind)
  /\ fetchRec = NoFetch
  /\ calls = [c \in Calls |-> NoCall]
  /\ consumed = {}
  /\ lastCall = Constructor(<<>>, NoOptions)
  /\ schema = init(User("UUID", [type |-> "STRING"], "HASONE"))
  /\ errors = NoErrors
  /\ serialized = NoBody
  /\ FieldTypes = static_block(TRUE)

Init == Built /\ Configured

(***************************************************************************)
(* fetch(options), up to its first await.                                  *)
(***************************************************************************)
\* a reset that leaves the outcome of the previous request standing
ResetTrack_inProgressOnly(st, k) == Put(st, k.inProgress, TRUE)

ResetTrack(st, k) ==
  Put(Put(Put(st, k.inProgress, TRUE), k.failed, FALSE), k.succeeded, FALSE)

\* an entry that resets the read track and the save track alike
enter_bothTracks(r, st, method) ==
  ResetTrack(ResetTrack(st, keys(r).entry.get), keys(r).entry.save)

enter_model_js(st, method) ==
  ResetTrack(st, keys_model_js.entry[Track(method)])

enter_part_005(st, method) ==
  ResetTrack(st, keys_part_005.entry[Track(method)])

enter_part_004(st, method) ==
  ResetTrack(Put(Put(Put(st, "inprogress", TRUE), "failure", FALSE), "success", FALSE),
             keys_part_004.entry[Track(method)])

enter(r, st, method) ==
  CASE r = "model_js" -> enter_model_js(st, method)
    [] r = "part_005" -> enter_part_005(st, method)
    [] r = "part_004" -> enter_part_004(st, method)

\* model.js builds a new record, part_004 resets the response, part_005
\* overwrites the options alone
memoize(r, rec, c) ==
  IF r = "part_005" THEN [rec EXCEPT !.options = c]
  ELSE [options |-> c, response |-> 0]

\* a fetch() that aborts the requests still outstanding on the instance
fetch_cancelling(c, options) ==
  /\ calls[c].pc = "idle"
  /\ \A d \in Calls : d < c => calls[d].pc # "idle"
  /\ fetchRec' = memoize(rev, fetchRec, c)
  /\ state' = enter(rev, state, options.method)
  /\ calls' = [d \in Calls |->
                 IF d = c
                 THEN [calls[d] EXCEPT !.pc = "init", !.method = options.method,
                                       !.extend = options.extend,
                                       !.pathname = options.pathname,
                                       !.searchParams = options.searchParams]
                 ELSE IF calls[d].pc \in {"init", "request"}
                 THEN [calls[d] EXCEPT !.pc = "resolved", !.status = "aborted"]
                 ELSE calls[d]]
  /\ UNCHANGED <<statics, lastCall, rev, authentication, kind, inst, heap, validator, consumed>>

\* if (!this.constructor.endpoint) throw ..., the first statement of fetch()
fetch_unconfigured ==
  /\ lastCall' = Call("fetch", <<>>, NoOptions, NoRef, Undefined, "ConfigurationError")
  /\ UNCHANGED <<statics, rev, authentication, kind, inst, heap, validator, state,
                 fetchRec, calls, consumed>>

\* is the class configured as far as fetch() looks
hasEndpoint == endpoint # ""

fetch(c, options) ==
  /\ calls[c].pc = "idle"
  /\ \A d \in Calls : d < c => calls[d].pc # "idle"
  /\ IF ~hasEndpoint
     THEN fetch_unconfigured
     ELSE /\ fetchRec' = memoize(rev, fetchRec, c)
          /\ state' = enter(rev, state, options.method)
          /\ calls' = [calls EXCEPT ![c] =
                         [@ EXCEPT !.pc = "init", !.method = options.method,
                                   !.extend = options.extend,
                                   !.pathname = options.pathname,
                                   !.searchParams = options.searchParams]]
          /\ UNCHANGED <<statics, lastCall, rev, authentication, kind, inst, heap,
                         validator, consumed>>

\* the request a method hands to fetch()
Request(method, extend, pathname, searchParams) ==
  [method |-> method, extend |-> extend, pathname |-> pathname,
   searchParams |-> searchParams]

\* part_004: searchParams.limit ??= 20, searchParams.offset ??= 0
searchDefaults_part_004(searchParams) ==
  [limit |-> IF has(searchParams, "limit") THEN searchParams["limit"]
             ELSE DEFAULT_LIMIT,
   offset |-> IF has(searchParams, "offset") THEN searchParams["offset"]
              ELSE DEFAULT_OFFSET]

\* model.js, part_005: if (!searchParams.limit) ..., if (!searchParams.offset) ...
searchDefaults_model_js(searchParams) ==
  [limit |-> IF has(searchParams, "limit") /\ searchParams["limit"] # 0
             THEN searchParams["limit"] ELSE DEFAULT_LIMIT,
   offset |-> IF has(searchParams, "offset") /\ searchParams["offset"] # 0
              THEN searchParams["offset"] ELSE DEFAULT_OFFSET]

searchDefaults(r, searchParams) ==
  IF r = "part_004" THEN searchDefaults_part_004(searchParams)
  ELSE searchDefaults_model_js(searchParams)

\* what the application passes to get() of a collection
GetInputs ==
  {[pathname |-> "", searchParams |-> [key \in {} |-> 0]],
   [pathname |-> "", searchParams |-> [offset |-> PageOffset]],
   [pathname |-> "page", searchParams |-> [limit |-> PageLimit, offset |-> PageOffset]]}

\* the path an entity is read from
EntityPath == "me"

get(c) ==
  IF isCollection
  THEN \E input \in GetInputs :
         fetch(c, Request("GET", FALSE, input.pathname,
                          searchDefaults(rev, input.searchParams)))
  ELSE fetch(c, Request("GET", FALSE, EntityPath, NoSearchParams))

\* this.$fetch.options, once a request has been made
remembered == calls[fetchRec.options]

\* a getMore() that asks for the page of the request before it again
getMore_samePage(c) ==
  /\ isCollection
  /\ fetchRec.options # 0
  /\ remembered.searchParams # NoSearchParams
  /\ fetch(c, Request("GET", TRUE, remembered.pathname, remembered.searchParams))

\* searchParams.offset += searchParams.limit on the remembered options, then
\* fetch() with them; without remembered search parameters the += throws
getMore(c) ==
  /\ isCollection
  /\ fetchRec.options # 0
  /\ remembered.searchParams # NoSearchParams
  /\ fetch(c, Request("GET", TRUE, remembered.pathname,
                      [remembered.searchParams EXCEPT
                         !.offset = @ + remembered.searchParams.limit]))

\* joinPaths(this[primaryKeyFieldname], pathname) with pathname = ''
primaryKeyPath == ToString(inst[primaryKeyFieldname])

post(c) ==
  /\ ~isCollection
  /\ fetch(c, Request("POST", FALSE, "", NoSearchParams))

put(c) ==
  /\ ~isCollection
  /\ fetch(c, Request("PUT", FALSE, primaryKeyPath, NoSearchParams))

patch(c) ==
  /\ ~isCollection
  /\ fetch(c, Request("PATCH", FALSE, primaryKeyPath, NoSearchParams))

save(c) ==
  /\ ~isCollection
  /\ IF inst["$isNew"] THEN post(c) ELSE put(c)

(***************************************************************************)
(* await _buildRequestInit(...): the token of the authentication provider  *)
(* and, for POST, PUT and PATCH, the serialized body.  An exception here   *)
(* is outside the try block of fetch(): the promise of fetch() rejects.    *)
(***************************************************************************)
\* model.js, part_005: requestInit.body = data.toJSON({ removeInvalid: true })
requestInit_model_js(method, token) ==
  IF authentication /\ ~token THEN "invalid token" ELSE "built"

\* part_004: requestInit.body = JSON.stringyfy(...), which is no function of JSON
requestInit_part_004(method, token) ==
  IF authentication /\ ~token THEN "invalid token"
  ELSE IF method \in SaveMethods THEN "not a function"
  ELSE "built"

requestInit(r, method, token) ==
  IF r = "part_004" THEN requestInit_part_004(method, token)
  ELSE requestInit_model_js(method, token)

\* a fetch() that awaits _buildRequestInit inside its try block
_buildRequestInit_caught(c) ==
  /\ calls[c].pc = "init"
  /\ fetchRec' = fetchRec
  /\ \E token \in (IF authentication THEN BOOLEAN ELSE {TRUE}) :
       LET reqInit == requestInit(rev, calls[c].method, token)
       IN IF reqInit = "built"
          THEN /\ calls' = [calls EXCEPT ![c] = [@ EXCEPT !.pc = "request",
                                                          !.timer = "armed"]]
               /\ UNCHANGED <<state, consumed>>
          ELSE /\ LET k == keys(rev).failure[Track(calls[c].method)]
                  IN state' = Put(Put(state, k.inProgress, FALSE), k.failed, TRUE)
               /\ calls' = [calls EXCEPT ![c] = [@ EXCEPT !.pc = "resolved",
                                                          !.status = reqInit,
                                                          !.hooks = @ + 1]]
               /\ consumed' = consumed
  /\ UNCHANGED <<statics, lastCall, rev, authentication, kind, inst, heap, validator>>

_buildRequestInit(c) ==
  /\ calls[c].pc = "init"
  /\ \E token \in (IF authentication THEN BOOLEAN ELSE {TRUE}) :
       LET reqInit == requestInit(rev, calls[c].method, token)
       IN calls' = [calls EXCEPT ![c] =
                      IF reqInit = "built"
                      THEN [@ EXCEPT !.pc = "request", !.timer = "armed"]
                      ELSE [@ EXCEPT !.pc = "rejected", !.status = reqInit]]
  /\ UNCHANGED <<statics, lastCall, rev, authentication, kind, inst, heap, validator, state,
                 fetchRec, consumed>>

(***************************************************************************)
(* The catch block and the success block of fetch().                       *)
(***************************************************************************)
\* a catch block that leaves inProgress to the call that set it last
catch_flags_failedOnly(r, st, method) ==
  Put(st, keys(r).failure[Track(method)].failed, TRUE)

\* model.js, part_005: the flags of the track, then return
catch_flags(r, st, method) ==
  LET k == keys(r).failure[Track(method)]
  IN Put(Put(st, k.inProgress, FALSE), k.failed, TRUE)

\* part_004: this.$state.failure = true and the failure flag of the track
catch_part_004(st, method) ==
  Put(Put(st, "failure", TRUE), keys_part_004.failure[Track(method)].failed, TRUE)

\* part_004: the success flags are set as soon as the response is ok
success_part_004(st, method) ==
  Put(Put(Put(st, "success", TRUE), keys_part_004.once, TRUE),
      keys_part_004.success[Track(method)].succeeded, TRUE)

\* model.js, part_005: the success flags are set after the merge
success_flags(r, st, method) ==
  LET k == keys(r).success[Track(method)]
      st1 == Put(Put(st, k.inProgress, FALSE), k.succeeded, TRUE)
  IN IF method = "GET" THEN Put(st1, keys(r).once, TRUE) ELSE st1

\* part_004: "inprogress done", the last statement of fetch()
done_part_004(st, method) ==
  Put(st, keys_part_004.entry[Track(method)].inProgress, FALSE)

(***************************************************************************)
(* part_004 after its try/catch: if (this.$state.success) reads the body   *)
(* of this.$fetch.response, whichever call set the flag and the response.  *)
(* Gives the call's next position.                                         *)
(***************************************************************************)
after_try_part_004(call, st, rec, used) ==
  IF st["success"]
  THEN IF rec.response = 0
       THEN [call EXCEPT !.pc = "rejected"]
       ELSE [call EXCEPT !.pc = "body", !.bodyOf = rec.response,
                         !.readable = rec.response \notin used]
  ELSE [call EXCEPT !.pc = "resolved"]

\* the flags and the position of a call of model.js or part_005 that fails
Failed_model_js(c, call) ==
  /\ state' = catch_flags(rev, state, call.method)
  /\ calls' = [calls EXCEPT ![c] = [call EXCEPT !.pc = "resolved", !.hooks = @ + 1]]
  /\ consumed' = consumed

\* the flags and the position of a call of part_004 that fails
Failed_part_004(c, call) ==
  LET st == catch_part_004(state, call.method)
      next == after_try_part_004([call EXCEPT !.hooks = @ + 1], st, fetchRec', consumed)
  IN /\ state' = IF next.pc = "resolved" THEN done_part_004(st, call.method) ELSE st
     /\ calls' = [calls EXCEPT ![c] = next]
     /\ consumed' = IF next.pc = "body" THEN consumed \cup {next.bodyOf} ELSE consumed

Failed(c, call) ==
  IF rev = "part_004" THEN Failed_part_004(c, call) ELSE Failed_model_js(c, call)

(***************************************************************************)
(* The transport: await fetch(requestUrl, requestInit).                    *)
(***************************************************************************)
\* The bodies a server sends: a single record, a bare array, the paginated
\* envelope {rows, count}, and an envelope with one of its two keys missing.
Bodies ==
  {[shape |-> "object", nrows |-> 0, count |-> 0]}
  \cup {[shape |-> "array", nrows |-> n, count |-> 0] : n \in {0, MaxRows}}
  \cup {[shape |-> "envelope", nrows |-> n, count |-> k] :
          n \in {0, MaxRows}, k \in {MaxRows, BigCount}}
  \cup {[shape |-> "rowsOnly", nrows |-> n, count |-> 0] : n \in {MaxRows}}
  \cup {[shape |-> "countOnly", nrows |-> 0, count |-> k] : k \in {BigCount}}

\* the bodies sent to an instance of kind k: an entity is sent a record, or,
\* from a wrong endpoint, a list
BodiesFor(k) ==
  IF k = "entity"
  THEN {b \in Bodies : b.shape = "object" \/ (b.shape = "array" /\ b.nrows = MaxRows)}
  ELSE Bodies

\* the body of an error response
ErrorBody == [shape |-> "object", nrows |-> 0, count |-> 0]

\* the transport resolves with a response: clearTimeout, then the status
respond(c, ok, body) ==
  /\ calls[c].pc = "request"
  /\ fetchRec' = [fetchRec EXCEPT !.response = c]
  /\ LET call == [calls[c] EXCEPT !.timer = "cleared", !.elapsed = 0,
                                  !.status = IF ok THEN "ok" ELSE "notok",
                                  !.shape = body.shape, !.nrows = body.nrows,
                                  !.count = body.count]
     IN IF ~ok
        THEN Failed(c, call)
        ELSE IF rev = "part_004"
             THEN LET st == success_part_004(state, call.method)
                      next == after_try_part_004(call, st, fetchRec', consumed)
                  IN /\ state' = st
                     /\ calls' = [calls EXCEPT ![c] = next]
                     /\ consumed' = consumed \cup {next.bodyOf}
             ELSE /\ state' = state
                  /\ calls' = [calls EXCEPT ![c] = [call EXCEPT !.pc = "body", !.bodyOf = c]]
                  /\ consumed' = consumed \cup {c}
  /\ UNCHANGED <<statics, lastCall, rev, authentication, kind, inst, heap, validator>>

\* the transport rejects (network error): the timer is not cleared
reject(c) ==
  /\ calls[c].pc = "request"
  /\ fetchRec' = fetchRec
  /\ Failed(c, [calls[c] EXCEPT !.status = "error"])
  /\ UNCHANGED <<statics, lastCall, rev, authentication, kind, inst, heap, validator>>

\* time passes for every timer that is armed and not yet due
tick ==
  /\ \E c \in Calls : calls[c].timer = "armed" /\ calls[c].elapsed < ABORT_DELAY
  /\ calls' = [c \in Calls |->
                 IF calls[c].timer = "armed" /\ calls[c].elapsed < ABORT_DELAY
                 THEN [calls[c] EXCEPT !.elapsed = @ + TickStep]
                 ELSE calls[c]]
  /\ UNCHANGED <<statics, lastCall, rev, authentication, kind, inst, heap, validator, state,
                 fetchRec, consumed>>

\* setTimeout(() => abortController.abort(), 20000): an outstanding request
\* rejects with an AbortError; a settled one is not affected
abortTimeout(c) ==
  /\ calls[c].timer = "armed"
  /\ calls[c].elapsed >= ABORT_DELAY
  /\ fetchRec' = fetchRec
  /\ IF calls[c].pc = "request"
     THEN Failed(c, [calls[c] EXCEPT !.timer = "fired", !.status = "aborted"])
     ELSE /\ calls' = [calls EXCEPT ![c].timer = "fired"]
          /\ UNCHANGED <<state, consumed>>
  /\ UNCHANGED <<statics, lastCall, rev, authentication, kind, inst, heap, validator>>

(***************************************************************************)
(* The response body and the object the constructor builds from it.        *)
(* Values are tagged with the call whose response carries them.            *)
(***************************************************************************)
Rows(c, n) == [i \in 1..n |-> 10 * c + i]

\* the own keys of the parsed body, in order
bodyKeys(shape) ==
  CASE shape = "object" -> <<"name", "profile">>
    [] shape = "envelope" -> <<"rows", "count">>
    [] shape = "rowsOnly" -> <<"rows">>
    [] shape = "countOnly" -> <<"count">>
    [] OTHER -> <<>>

Range(seq) == {seq[i] : i \in DOMAIN seq}

\* static collectionDataKey = 'rows', static collectionCountKey = 'count'
collectionDataKey == "rows"
collectionCountKey == "count"

\* model.js, part_005: static _hasMatchedCollectionPattern (serverData)
_hasMatchedCollectionPattern(shape) ==
  /\ collectionCountKey \in Range(bodyKeys(shape))
  /\ collectionDataKey \in Range(bodyKeys(shape))

\* part_004 reads the two keys from the instance (this.collectionCountKey),
\* where the statics are not visible: has(serverData, undefined)
hasMatched_part_004(shape) ==
  /\ "undefined" \in Range(bodyKeys(shape))
  /\ "undefined" \in Range(bodyKeys(shape))

hasMatched(r, shape) ==
  IF r = "part_004" THEN hasMatched_part_004(shape)
  ELSE _hasMatchedCollectionPattern(shape)

\* the bookkeeping of a freshly built entity
freshInternal(r) ==
  ("$isNew" :> FALSE) @@ ("$validator" :> _buildValidator) @@
  ("$state" :> constructor_state(r, "entity")) @@ ("$fetch" :> NoFetch)

\* Object.keys of a freshly built entity: the bookkeeping first
internalKeys(r) ==
  IF r = "part_004" THEN <<"$fetch", "$state", "$isNew", "$validator">>
  ELSE <<"$modelize">>

\* new this.constructor(data, dataOptions) on the body of response src
build(r, src, resp) ==
  IF hasMatched(r, resp.shape)
  THEN [isCollection |-> TRUE, items |-> Rows(src, resp.nrows), count |-> resp.count]
  ELSE IF resp.shape = "array"
  THEN [isCollection |-> TRUE, items |-> Rows(src, resp.nrows), count |-> resp.nrows]
  ELSE [isCollection |-> FALSE,
        order |-> internalKeys(r) \o bodyKeys(resp.shape),
        internal |-> freshInternal(r),
        fields |-> [name |-> src, profile |-> src,
                    rows |-> Rows(src, resp.nrows), count |-> resp.count],
        nested |-> ("$isNew" :> FALSE) @@ [bio |-> src]]

(***************************************************************************)
(* _mutateData(instance): the merge of the freshly built object into the   *)
(* live one.  acc carries what the merge can write; thrown is set when a   *)
(* statement of the merge throws, which ends it where it stands.           *)
(***************************************************************************)
\* this[key] = value
Assign(acc, key, fresh) ==
  CASE key = "$validator" -> [acc EXCEPT !.validator = fresh.internal[key]]
    [] key = "$state" -> [acc EXCEPT !.state = fresh.internal[key]]
    [] key = "$fetch" -> [acc EXCEPT !.fetchRec = fresh.internal[key]]
    [] key = "$isNew" -> [acc EXCEPT !.inst = Put(@, key, fresh.internal[key])]
    [] key \in AssociationFields ->
         [acc EXCEPT !.inst = Put(@, key, fresh.fields[key]),
                     !.heap = Put(@, fresh.fields[key], fresh.nested)]
    [] OTHER -> [acc EXCEPT !.inst = Put(@, key, fresh.fields[key])]

\* the nested entity's own _mutateData: isNew and every field of the fresh one
mutateNested(old, new) ==
  [k \in (DOMAIN old) \cup (DOMAIN new) |-> IF k \in DOMAIN new THEN new[k] ELSE old[k]]

\* this[key] is an object with own property prop
ownProperty(acc, key, prop) ==
  /\ key \in AssociationFields
  /\ has(acc.inst, key)
  /\ has(acc.heap[acc.inst[key]], prop)

\* this[key] is neither undefined nor null
defined(acc, key) ==
  \/ key \in {"$fetch", "$state"}
  \/ key = "$validator" /\ DOMAIN acc.validator # {}
  \/ has(acc.inst, key)

\* model.js, part_005: the body of Object.keys(newData).forEach
mutateKey_model_js(acc, key, fresh) ==
  IF key = "$modelize"
  THEN [acc EXCEPT !.inst = Put(@, "$isNew", fresh.internal["$isNew"])]
  ELSE IF key \in AssociationFields /\ has(acc.inst, key)
  THEN [acc EXCEPT !.heap = Put(@, acc.inst[key],
                                mutateNested(@[acc.inst[key]], fresh.nested))]
  ELSE Assign(acc, key, fresh)

\* a merge that protects the fetch bookkeeping and forgets the validator
protectedKeys_withoutValidator == {"$fetch", "$state"}

\* part_004: the keys _mutateData never assigns
protectedKeys == {"$fetch", "$state", "$validator"}

\* part_004: the body of for (const [key, value] of Object.entries(instance))
mutateKey_part_004(acc, key, fresh) ==
  IF ~defined(acc, key)
  THEN [acc EXCEPT !.thrown = TRUE]
  ELSE IF ownProperty(acc, key, "_mutateData") /\ has(fresh.nested, "_mutateData")
  THEN [acc EXCEPT !.heap = Put(@, acc.inst[key],
                                mutateNested(@[acc.inst[key]], fresh.nested))]
  ELSE IF key \notin protectedKeys
  THEN Assign(acc, key, fresh)
  ELSE acc

mutateKey(r, acc, key, fresh) ==
  IF r = "part_004" THEN mutateKey_part_004(acc, key, fresh)
  ELSE mutateKey_model_js(acc, key, fresh)

RECURSIVE mutateEntity(_, _, _, _)
mutateEntity(r, acc, order, fresh) ==
  IF order = <<>> \/ acc.thrown THEN acc
  ELSE mutateEntity(r, mutateKey(r, acc, Head(order), fresh), Tail(order), fresh)

\* this.$fetch.options?.extend, read when the merge runs
extendRemembered(rec) == rec.options # 0 /\ calls[rec.options].extend

\* newItem => this.add(newItem), for every item: push, count + 1
addAll(obj, items) ==
  Put(Put(obj, "items", obj["items"] \o items), "$count", obj["$count"] + Len(items))

\* a merge that extends whatever the remembered options say
mutateCollection_alwaysExtend(acc, fresh) ==
  IF ~has(acc.inst, "items")
  THEN [acc EXCEPT !.thrown = TRUE]
  ELSE [acc EXCEPT !.inst = Put(addAll(@, fresh.items), "$count", fresh.count)]

\* model.js, part_005: extend or replace, then the count of the fresh one
mutateCollection_model_js(acc, fresh) ==
  IF extendRemembered(acc.fetchRec)
  THEN IF ~has(acc.inst, "items")
       THEN [acc EXCEPT !.thrown = TRUE]
       ELSE [acc EXCEPT !.inst = Put(addAll(@, fresh.items), "$count", fresh.count)]
  ELSE [acc EXCEPT !.inst = Put(Put(@, "items", fresh.items), "$count", fresh.count)]

\* part_004: the fresh count is taken only when the list is replaced
mutateCollection_part_004(acc, fresh) ==
  IF extendRemembered(acc.fetchRec)
  THEN IF ~has(acc.inst, "items")
       THEN [acc EXCEPT !.thrown = TRUE]
       ELSE [acc EXCEPT !.inst = addAll(@, fresh.items)]
  ELSE [acc EXCEPT !.inst = Put(Put(@, "items", fresh.items), "$count", fresh.count)]

_mutateData(r, acc, fresh) ==
  IF fresh.isCollection
  THEN IF r = "part_004" THEN mutateCollection_part_004(acc, fresh)
       ELSE mutateCollection_model_js(acc, fresh)
  ELSE mutateEntity(r, acc, fresh.order, fresh)

(***************************************************************************)
(* await response.json() resolves: build, merge, and the end of fetch().   *)
(***************************************************************************)
\* the body stream of a response is read once; nothing reads it again
Forget(call) == [call EXCEPT !.shape = "none", !.nrows = 0, !.count = 0]

json(c) ==
  /\ calls[c].pc = "body"
  /\ IF ~calls[c].readable
     THEN /\ calls' = [calls EXCEPT ![c].pc = "rejected"]
          /\ UNCHANGED <<inst, heap, validator, state, fetchRec>>
     ELSE LET src == calls[c].bodyOf
              fresh == build(rev, src, calls[src])
              acc == _mutateData(rev, [inst |-> inst, heap |-> heap,
                                       validator |-> validator, state |-> state,
                                       fetchRec |-> fetchRec, thrown |-> FALSE], fresh)
          IN /\ inst' = acc.inst
             /\ heap' = acc.heap
             /\ validator' = acc.validator
             /\ fetchRec' = acc.fetchRec
             /\ state' = IF acc.thrown THEN acc.state
                         ELSE IF rev = "part_004"
                         THEN done_part_004(acc.state, calls[c].method)
                         ELSE success_flags(rev, acc.state, calls[c].method)
             /\ calls' = [d \in Calls |->
                            LET read == IF d = src THEN Forget(calls[d]) ELSE calls[d]
                            IN IF d = c
                               THEN [read EXCEPT !.pc = IF acc.thrown THEN "rejected"
                                                        ELSE "resolved"]
                               ELSE read]
  /\ UNCHANGED <<statics, lastCall, rev, authentication, kind, consumed>>

(***************************************************************************)
(* valid(fieldlist) on an entity: resets the save flags and marks the      *)
(* validated field checked.                                                *)
(***************************************************************************)
valid(f) ==
  /\ ~isCollection
  /\ f \in DOMAIN validator
  /\ LET k == keys(rev).entry.save
     IN state' = Put(Put(Put(state, k.inProgress, FALSE), k.succeeded, FALSE),
                     k.failed, FALSE)
  /\ validator' = [validator EXCEPT ![f] = TRUE]
  /\ UNCHANGED <<statics, lastCall, rev, authentication, kind, inst, heap, fetchRec, calls, consumed>>

\* the fields the application validates
ValidatedFields == {"name"}

Next ==
  \/ \E c \in Calls : get(c) \/ getMore(c) \/ post(c) \/ put(c) \/ patch(c) \/ save(c)
  \/ \E c \in Calls : _buildRequestInit(c)
  \/ \E c \in Calls : \/ \E body \in BodiesFor(kind) : respond(c, TRUE, body)
                       \/ respond(c, FALSE, ErrorBody)
  \/ \E c \in Calls : reject(c) \/ abortTimeout(c) \/ json(c)
  \/ tick
  \/ \E f \in ValidatedFields : valid(f)

Spec == Init /\ [][Next]_vars

(***************************************************************************)
(* What the properties below read.                                         *)
(***************************************************************************)
\* a flag as an observer reads it in the flags st
Flag(st, key) ==
  IF has(st, key) THEN (IF st[key] THEN "true" ELSE "false") ELSE "undefined"

\* the flags of a track in st: <<inProgress, succeeded, failed>>
TrackFlags(st, track) ==
  <<Flag(st, getters(rev)[track].inProgress),
    Flag(st, getters(rev)[track].succeeded),
    Flag(st, getters(rev)[track].failed)>>

Settled == {"resolved", "rejected"}

\* this step is call c entering fetch(), up to its first await
Enters(c) == calls[c].pc = "idle" /\ calls'[c].pc = "init"

\* this step is the one in which the promise of call c settles
Completes(c) == calls[c].pc \notin Settled /\ calls'[c].pc \in Settled

\* call c ends this step as a failure routed to the hook: the promise
\* resolves, the hook has run once, the track reads failed and not in progress
FailsOnTrack(c) ==
  /\ calls'[c].pc = "resolved"
  /\ calls'[c].hooks = 1
  /\ TrackFlags(state', Track(calls'[c].method)) = <<"false", "false", "true">>

(***************************************************************************)
(* C1  Entering fetch(options) sets the track of the request (the read     *)
(* track for GET, the save track for POST, PUT, PATCH) to inProgress =     *)
(* true, succeeded = false, failed = false and remembers the options, in   *)
(* the step that runs up to the first await, whatever the flags were.      *)
(***************************************************************************)
C1_EntryResetsTrack ==
  [][\A c \in Calls :
       Enters(c) =>
         /\ TrackFlags(state', Track(calls'[c].method)) = <<"true", "false", "false">>
         /\ fetchRec'.options = c]_vars

\* call 2 has entered fetch() on the track on which call 1 ended failed
C1_Witness ==
  /\ calls[1].pc = "resolved" /\ calls[1].status = "notok"
  /\ calls[2].pc = "init" /\ calls[2].method = calls[1].method
  /\ TrackFlags(state, Track(calls[2].method)) = <<"true", "false", "false">>
  /\ fetchRec.options = 2

(***************************************************************************)
(* C2  A fetch whose response has a non-success status (a failing PUT in   *)
(* particular) completes with its track failed = true, succeeded = false,  *)
(* inProgress = false, the fetch-error hook invoked exactly once, and the  *)
(* promise resolved.                                                       *)
(***************************************************************************)
C2_NonSuccessFails ==
  [][\A c \in Calls :
       (Completes(c) /\ calls'[c].status = "notok") => FailsOnTrack(c)]_vars

\* a PUT has completed on a non-success response
C2_FailingPut ==
  \E c \in Calls :
    calls[c].method = "PUT" /\ calls[c].status = "notok" /\ calls[c].pc \in Settled

(***************************************************************************)
(* C3  A successful read sets the read track to succeeded, and the latch   *)
(* succeededOnce is false in every state before the first successful GET   *)
(* and true in every state after it.                                       *)
(***************************************************************************)
\* no GET has received a success response yet
NoReadYet == \A c \in Calls : ~(calls[c].method = "GET" /\ calls[c].status = "ok")

\* a GET has completed successfully
ReadDone ==
  \E c \in Calls :
    calls[c].method = "GET" /\ calls[c].status = "ok" /\ calls[c].pc = "resolved"

C3_SucceededOnceLatched ==
  /\ [](NoReadYet => Flag(state, latch(rev)) = "false")
  /\ [](ReadDone => succeededOnce)
  /\ [][\A c \in Calls :
          (Completes(c) /\ calls'[c].method = "GET" /\ calls'[c].status = "ok"
             /\ calls'[c].pc = "resolved")
          => TrackFlags(state', "get")[2] = "true"]_vars

\* a GET has completed successfully and a later call has failed
C3_ReadThenFailure ==
  /\ calls[1].method = "GET" /\ calls[1].status = "ok" /\ calls[1].pc = "resolved"
  /\ calls[2].pc = "resolved" /\ calls[2].status \in {"notok", "aborted", "error"}

FailureSurfaces(c) ==
  /\ calls'[c].hooks = 1
  /\ TrackFlags(state', Track(calls'[c].method))[1] = "false"
  /\ TrackFlags(state', Track(calls'[c].method))[3] = "true"

C5_TimeoutCancels ==
  /\ [][\A c \in Calls :
          (Completes(c) /\ calls'[c].status = "aborted") => FailureSurfaces(c)]_vars
  /\ [][\A c \in Calls :
          (calls[c].pc = "request" /\ calls'[c].status = "aborted")
          => calls[c].elapsed >= ABORT_DELAY]_vars
  /\ [](\A c \in Calls : calls[c].status \in {"ok", "notok"} => calls[c].timer = "cleared")
  /\ [][\A c \in Calls : calls[c].timer = "cleared" => calls'[c].timer = "cleared"]_vars

\* a request has been cancelled by its timer
C5_Cancelled ==
  \E c \in Calls : calls[c].status = "aborted" /\ calls[c].timer = "fired"

(***************************************************************************)
(* The step in which call c reads a body and merges it.                    *)
(***************************************************************************)
\* call c is about to read the body of a response that can be read
Reads(c) == calls[c].pc = "body" /\ calls[c].readable

\* this step is call c reading the body and running the merge
Merging(c) == Reads(c) /\ calls'[c].pc \in Settled

\* this step is call c merging what it read, the merge running to its end
Merges(c) == Reads(c) /\ calls'[c].pc = "resolved"

\* the body call c reads, and the object built from it
BodyRead(c) == calls[calls[c].bodyOf]
Fresh(c) == build(rev, calls[c].bodyOf, BodyRead(c))

\* the live instance is a collection, is an entity
LiveCollection == kind = "collection"
LiveEntity == kind = "entity" /\ ~has(inst, "items")

\* the last n items of the list of instance i
LastItems(i, n) == SubSeq(i["items"], Len(i["items"]) - n + 1, Len(i["items"]))

(***************************************************************************)
(* C6  A response body is a paginated collection exactly when it holds     *)
(* both the records key (rows) and the count key (count): a collection     *)
(* that reads such a body ends with the records as its items and the       *)
(* count as its total (2 records of 10: length 2, count 10, hasMore),      *)
(* while a body with one of the two keys is built as a single record and   *)
(* gives the collection neither items nor a count.                         *)
(***************************************************************************)
C6_EnvelopeNeedsBothKeys ==
  [][\A c \in Calls :
       (Merging(c) /\ LiveCollection) =>
         LET body == BodyRead(c)
         IN /\ body.shape = "envelope" =>
                 /\ calls'[c].pc = "resolved"
                 /\ LastItems(inst', body.nrows) = Rows(calls[c].bodyOf, body.nrows)
                 /\ inst'["$count"] = body.count
                 /\ (~extendRemembered(fetchRec) /\ body.nrows < body.count) =>
                       (Len(inst'["items"]) = body.nrows /\ hasMore')
            /\ body.shape \in {"rowsOnly", "countOnly"} =>
                 /\ ~Fresh(c).isCollection
                 /\ inst'["items"] = inst["items"]
                 /\ inst'["$count"] = inst["$count"]]_vars

\* a collection holds 2 items of a total of 10 and can be extended
C6_TwoOfTen ==
  /\ kind = "collection" /\ LiveCollection
  /\ length = MaxRows /\ inst["$count"] = BigCount /\ hasMore

C8_NestedKeepsIdentity ==
  [][\A c \in Calls :
       (Merges(c) /\ LiveEntity /\ ~Fresh(c).isCollection
          /\ has(inst, "profile") /\ "profile" \in Range(Fresh(c).order)) =>
         /\ inst'["profile"] = inst["profile"]
         /\ heap'[inst["profile"]]["bio"] = Fresh(c).nested["bio"]]_vars

\* an entity has merged a response that carries its association
C8_NestedMerged ==
  /\ kind = "entity"
  /\ \E c \in Calls : calls[c].pc = "resolved" /\ calls[c].status = "ok"
                      /\ inst["name"] = c

(***************************************************************************)
(* C9  Merging a fresh entity into an entity leaves the checked flags of   *)
(* the validator and the fetch-state block as they were, takes isNew from  *)
(* the fresh entity, and copies every ordinary field.                      *)
(***************************************************************************)
\* the flags the end of fetch() sets in the step of the merge
FlagsAfterMerge(c) ==
  IF rev = "part_004" THEN done_part_004(state, calls[c].method)
  ELSE success_flags(rev, state, calls[c].method)

Holds(i, h, fresh) ==
  IF fresh.isCollection
  THEN /\ has(i, "items")
       /\ Len(i["items"]) >= Len(fresh.items)
       /\ LastItems(i, Len(fresh.items)) = fresh.items
  ELSE \A key \in Range(fresh.order) \ Range(internalKeys(rev)) :
         /\ has(i, key)
         /\ IF key \in AssociationFields
            THEN h[i[key]]["bio"] = fresh.nested["bio"]
            ELSE i[key] = fresh.fields[key]

C10_EarlierFetchStillMerges ==
  /\ [][\A a, b \in Calls : (a # b /\ Enters(b)) => calls'[a] = calls[a]]_vars
  /\ [][\A a, b \in Calls :
          (a < b /\ calls[b].pc # "idle" /\ Merges(a) /\ calls[a].status = "ok")
          => (calls[a].bodyOf = a /\ Holds(inst', heap', Fresh(a)))]_vars

\* call 1 has completed with success after call 2, started later, completed
C10_StaleCompletesLast ==
  /\ calls[2].pc = "resolved" /\ calls[2].status = "ok"
  /\ calls[1].pc = "resolved" /\ calls[1].status = "ok"
  /\ kind = "entity" /\ inst["name"] = 1

(***************************************************************************)
(* C11  Two overlapping fetches share the flags of their track.  When the  *)
(* earlier one completes while the later one is outstanding, it writes the *)
(* track: a state is reached in which the later request is outstanding,    *)
(* the track reads inProgress = false, and succeeded or failed is that of  *)
(* the earlier request.                                                    *)
(***************************************************************************)
Outstanding == {"init", "request", "body"}

\* call a, started before call b on the same track, b still outstanding
Stale(a, b) ==
  /\ a < b
  /\ calls[b].pc \in Outstanding
  /\ Track(calls[a].method) = Track(calls[b].method)

\* the promise of call c resolves in this step
Resolves(c) == Completes(c) /\ calls'[c].pc = "resolved"

\* the catch block of part_005 writes the save flags outside the track (C2)
WritesOffTrack(c) ==
  rev = "part_005" /\ calls[c].method \in SaveMethods /\ calls'[c].status # "ok"

C11_StaleCompletionWritesTrack ==
  [][\A a, b \in Calls :
       (Stale(a, b) /\ Resolves(a) /\ ~WritesOffTrack(a))
       => LET flags == TrackFlags(state', Track(calls[a].method))
          IN /\ flags[1] = "false"
             \* part_004 reads the body of a failed response when the shared
             \* success flag is set, and a later entry resets the failure flag
             /\ (calls'[a].status # "ok" /\ (rev # "part_004" \/ calls[a].pc = "request"))
                  => flags[3] = "true"
             \* part_004 sets the success flag before it reads the body,
             \* where the entry of b resets it
             /\ (calls'[a].status = "ok" /\ rev # "part_004") => flags[2] = "true"]_vars

\* call 1 has failed, call 2 on the same track has not got its response
\* yet, and the track reads as finished and failed
C11_NewerStillOutstanding ==
  /\ calls[1].pc = "resolved" /\ calls[1].status = "notok"
  /\ calls[2].pc = "request"
  /\ Track(calls[1].method) = Track(calls[2].method)
  /\ TrackFlags(state, Track(calls[2].method))[1] = "false"
  /\ TrackFlags(state, Track(calls[2].method))[3] = "true"

(***************************************************************************)
(* Paging through a collection: a get() and the getMore() calls after it,  *)
(* each awaited before the next.  A call that has settled and is referred  *)
(* to by nothing leaves the model, so that its slot serves the next        *)
(* request.                                                                *)
(***************************************************************************)
\* the promise of call c has settled and neither $fetch nor a call refers to it
retire(c) ==
  /\ calls[c].pc \in Settled
  /\ fetchRec.options # c
  /\ fetchRec.response # c
  /\ \A d \in Calls \ {c} : calls[d].bodyOf # c
  /\ calls' = [calls EXCEPT ![c] = NoCall]
  /\ consumed' = consumed \ {c}
  /\ UNCHANGED <<statics, lastCall, rev, authentication, kind, inst, heap, validator, state, fetchRec>>

InitPaging == Init /\ kind = "collection"

\* the application awaits each request before it makes the next
Awaited == \A d \in Calls : calls[d].pc \in Settled \cup {"idle"}

NextPaging ==
  \/ \E c \in Calls : fetchRec.options = 0 /\ get(c)
  \/ \E c \in Calls : /\ Awaited
                      /\ fetchRec.options # 0
                      /\ remembered.searchParams # NoSearchParams
                      /\ remembered.searchParams.offset < MaxOffset
                      /\ getMore(c)
  \/ \E c \in Calls : _buildRequestInit(c)
  \/ \E c \in Calls : \/ \E body \in BodiesFor(kind) : respond(c, TRUE, body)
                       \/ respond(c, FALSE, ErrorBody)
  \/ \E c \in Calls : json(c)
  \/ \E c \in Calls : retire(c)

SpecPaging == InitPaging /\ [][NextPaging]_vars

(***************************************************************************)
(* C12  getMore() asks for the page after the one asked for last: it       *)
(* issues a GET with the pathname and the limit of the request before it   *)
(* and that request's offset plus the limit, so that the k-th getMore in   *)
(* a row after get() with limit L and offset O asks for offset O + k * L;  *)
(* and its response is merged in extend mode.                              *)
(***************************************************************************)
\* this step is a getMore() entering fetch() as call c
EntersMore(c) == Enters(c) /\ calls'[c].extend

C12_GetMoreNextPage ==
  /\ [][\A c \in Calls :
          EntersMore(c) =>
            /\ calls'[c].method = "GET"
            /\ calls'[c].pathname = remembered.pathname
            /\ calls'[c].searchParams.limit = remembered.searchParams.limit
            /\ calls'[c].searchParams.offset =
                 remembered.searchParams.offset + remembered.searchParams.limit
            /\ fetchRec'.options = c]_vars
  /\ [][\A c \in Calls :
          (Merging(c) /\ calls[c].extend /\ fetchRec.options = c
                      /\ Fresh(c).isCollection)
          => /\ calls'[c].pc = "resolved"
             /\ inst'["items"] = inst["items"] \o Fresh(c).items]_vars

\* the second getMore in a row after get('page', {limit: 2, offset: 4}) has
\* been issued, asking for offset 4 + 2 * 2, and its page has been appended
C12_SecondGetMore ==
  /\ \E c \in Calls :
       /\ calls[c].extend /\ calls[c].pc = "resolved" /\ calls[c].status = "ok"
       /\ calls[c].pathname = "page"
       /\ calls[c].searchParams = [limit |-> PageLimit,
                                   offset |-> PageOffset + 2 * PageLimit]
       /\ fetchRec.options = c
  /\ length = 3 * MaxRows

(***************************************************************************)
(* C13  save() issues a POST while isNew is true and otherwise a PUT       *)
(* addressed by the primary key of the entity.  A successful save of a     *)
(* new entity leaves isNew = false, so the next save() is a PUT; a failed  *)
(* save leaves isNew as it was, so the next save() of a new entity is a    *)
(* POST again.                                                             *)
(***************************************************************************)
\* call c is a save request whose init is being built, a token being at hand
BuildsSave(c) ==
  /\ calls[c].pc = "init" /\ calls[c].method \in {"POST", "PUT"}
  /\ ~authentication
  /\ calls'[c] # calls[c]

\* the promise of call c settles in this step otherwise than as a success
Fails(c) ==
  Completes(c) /\ (calls'[c].pc = "rejected" \/ calls'[c].status # "ok")

C13_SaveDispatch ==
  \* save() enters fetch with the method and the path isNew calls for
  /\ [][\A c \in Calls :
          save(c) =>
            /\ calls'[c].pc = "init"
            /\ calls'[c].method = IF inst["$isNew"] THEN "POST" ELSE "PUT"
            /\ calls'[c].pathname = IF inst["$isNew"] THEN ""
                                    ELSE ToString(inst[primaryKeyFieldname])]_vars
  \* and the request goes to the transport
  /\ [][\A c \in Calls : BuildsSave(c) => calls'[c].pc = "request"]_vars
  \* the record of a successful save makes the entity a known one
  /\ [][\A c \in Calls :
          (Merges(c) /\ calls[c].method \in {"POST", "PUT"} /\ calls[c].bodyOf = c
                     /\ LiveEntity /\ ~Fresh(c).isCollection)
          => ~inst'["$isNew"]]_vars
  \* a failed save leaves isNew alone
  /\ [][\A c \in Calls :
          (Fails(c) /\ calls[c].method \in {"POST", "PUT"} /\ ~has(inst, "items"))
          => inst'["$isNew"] = inst["$isNew"]]_vars

\* a new entity has been saved by a POST that succeeded, is no longer new,
\* and its next save() has gone out as a PUT addressed by its primary key
C13_SavedThenPut ==
  /\ calls[1].method = "POST" /\ calls[1].pc = "resolved" /\ calls[1].status = "ok"
  /\ LiveEntity /\ ~inst["$isNew"] /\ inst[primaryKeyFieldname] = 1
  /\ calls[2].method = "PUT" /\ calls[2].pc = "request" /\ calls[2].pathname = "1"

(***************************************************************************)
(* The list operations of a collection.  An item is written 10 * v + k:    *)
(* k is its primary key and v tells apart the items that carry the same    *)
(* key.  A reference is a predicate, a bare primary-key value (a string or *)
(* a number, as the schema types the key) or an object carrying the key.   *)
(***************************************************************************)
MaxLen == 3        \* no add() is made on a list of this length
MaxCount == 5      \* nor on a collection of this total count
ManyCount == 4     \* a total count larger than any list a constructor is given

\* item[primaryKeyFieldname]
primaryKey(item) == item % 10

\* the items the application holds, two of them with the same primary key
ItemPool == {11, 12, 21}

\* the references of the application: of an item, or of a primary key
Ref(type, item) == [type |-> type, item |-> item]
Refs ==
  {Ref(type, item) : type \in {"function", primaryKeyType}, item \in {1, 3}}
    \cup {Ref("object", item) : item \in {11, 13}}

\* what a method returns
Null == [type |-> "null", items |-> <<>>, bool |-> FALSE]
Bool(b) == [type |-> "boolean", items |-> <<>>, bool |-> b]
Instance(item) == [type |-> "instance", items |-> <<item>>, bool |-> FALSE]
Array(list) == [type |-> "array", items |-> list, bool |-> FALSE]

\* part_004: a function for a function, a string and an object, else undefined
isFunction_part_004(ref) == ref.type \in {"function", "string", "object"}

\* model.js, part_005: the last branch of the conditional takes what is left
isFunction_model_js(ref) == TRUE

\* is what _getCollectionCallback(ref) returns a function
isFunction(r, ref) ==
  IF r = "part_004" THEN isFunction_part_004(ref) ELSE isFunction_model_js(ref)

\* the predicates the application passes: item => item.id === key
predicate(ref, item) == primaryKey(item) = ref.item

\* _getCollectionCallback(ref)(item)
_getCollectionCallback(ref, item) ==
  CASE ref.type = "function" -> predicate(ref, item)
    \* item[primaryKeyFieldname] === ref
    [] ref.type = "string" -> primaryKeyType = "string" /\ primaryKey(item) = ref.item
    \* item[primaryKeyFieldname] === ref[primaryKeyFieldname]
    [] ref.type = "object" -> primaryKey(item) = primaryKey(ref.item)
    \* model.js, part_005: a number has no property, the right side is undefined
    [] OTHER -> FALSE

\* Array.prototype.findIndex, counted from 1; 0 when no item matches
findIndex(list, ref) ==
  LET found == {i \in 1..Len(list) : _getCollectionCallback(ref, list[i])}
  IN IF found = {} THEN 0 ELSE CHOOSE i \in found : \A j \in found : i <= j

\* Array.prototype.splice(index, 1): the list that is left
splice(list, index) ==
  SubSeq(list, 1, index - 1) \o SubSeq(list, index + 1, Len(list))

\* the instance and the outcome of a method: returned value or thrown error
Outcome(i, result, thrown) == [inst |-> i, result |-> result, thrown |-> thrown]

\* an add() that forgets the total count
add_withoutCount(i, item) ==
  Outcome([i EXCEPT !["items"] = Append(@, item)], Instance(item), "none")

\* add(item): push the instance, count + 1, return the instance
add_(i, item) ==
  Outcome([i EXCEPT !["items"] = Append(@, item), !["$count"] = @ + 1],
          Instance(item), "none")

\* a remove() that takes the last matching item
remove_lastMatch(r, i, ref) ==
  LET found == {n \in 1..Len(i["items"]) : _getCollectionCallback(ref, i["items"][n])}
      index == CHOOSE n \in found : \A j \in found : j <= n
  IN IF ~isFunction(r, ref) THEN Outcome(i, Undefined, "TypeError")
     ELSE IF found = {} THEN Outcome(i, Null, "none")
     ELSE Outcome([i EXCEPT !["items"] = splice(@, index), !["$count"] = @ - 1],
                  Array(<<i["items"][index]>>), "none")

\* remove(ref): findIndex; null when -1; count - 1; return splice(index, 1)
remove_(r, i, ref) ==
  LET index == findIndex(i["items"], ref)
  IN IF ~isFunction(r, ref) THEN Outcome(i, Undefined, "TypeError")
     ELSE IF index = 0 THEN Outcome(i, Null, "none")
     ELSE Outcome([i EXCEPT !["items"] = splice(@, index), !["$count"] = @ - 1],
                  Array(<<i["items"][index]>>), "none")

\* find(ref): items().find(callback) || null
find_(r, i, ref) ==
  LET index == findIndex(i["items"], ref)
  IN IF ~isFunction(r, ref) THEN Outcome(i, Undefined, "TypeError")
     ELSE IF index = 0 THEN Outcome(i, Null, "none")
     ELSE Outcome(i, Instance(i["items"][index]), "none")

\* exists(ref): items().some(callback)
exists_(r, i, ref) ==
  IF ~isFunction(r, ref) THEN Outcome(i, Undefined, "TypeError")
  ELSE Outcome(i, Bool(findIndex(i["items"], ref) # 0), "none")

\* toggle(item): remove(item) if exists(item), else add(item)
toggle_(r, i, item) ==
  IF exists_(r, i, Ref("object", item)).result.bool
  THEN remove_(r, i, Ref("object", item))
  ELSE add_(i, item)

\* clear(): items().splice(0, length)
clear_(i) == Outcome([i EXCEPT !["items"] = <<>>], Undefined, "none")

\* what the list operations leave alone
bookkeeping ==
  <<rev, authentication, kind, heap, validator, state, fetchRec, calls, consumed>>

\* the method op, called with item or ref, ends as the outcome says
Does(op, ref, outcome) ==
  /\ inst' = outcome.inst
  /\ lastCall' = Call(op, <<>>, NoOptions, ref, outcome.result, outcome.thrown)
  /\ UNCHANGED <<statics, bookkeeping>>

add(item) == isCollection /\ Does("add", Ref("object", item), add_(inst, item))
remove(ref) == isCollection /\ Does("remove", ref, remove_(rev, inst, ref))
find(ref) == isCollection /\ Does("find", ref, find_(rev, inst, ref))
exists(ref) == isCollection /\ Does("exists", ref, exists_(rev, inst, ref))
toggle(item) ==
  isCollection /\ Does("toggle", Ref("object", item), toggle_(rev, inst, item))
clear == isCollection /\ Does("clear", NoRef, clear_(inst))

\* the operations made for a collection, and for an entity
CollectionOnly == {"items", "length", "add", "remove", "find", "exists",
                   "toggle", "clear", "isLast", "getMore"}
EntityOnly == {"valid", "post", "put", "patch", "save"}

\* _allowCollection() throws: a collection operation called on an entity
_allowCollection(op) ==
  /\ ~isCollection
  /\ Does(op, NoRef, Outcome(inst, Undefined, "WrongCardinality"))

\* part_004: _denyCollection(), model.js and part_005: _allowSingleItem()
\* throws: post, put, patch or save called on a collection
_denyCollection(op) ==
  /\ isCollection
  /\ Does(op, NoRef, Outcome(inst, Undefined, "WrongCardinality"))

\* valid(fieldlist) called on a collection.  part_004 denies it; model.js and
\* part_005 reset the save flags, find the field missing and return false
valid_collection ==
  /\ isCollection
  /\ IF rev = "part_004"
     THEN _denyCollection("valid")
     ELSE /\ LET k == keys(rev).entry.save
             IN state' = Put(Put(Put(state, k.inProgress, FALSE), k.succeeded, FALSE),
                             k.failed, FALSE)
          /\ lastCall' = Call("valid", <<>>, NoOptions, NoRef, Bool(FALSE), "none")
          /\ UNCHANGED <<statics, rev, authentication, kind, inst, heap, validator,
                         fetchRec, calls, consumed>>

\* what the application builds a collection from
ConstructorData == {<<>>, <<11>>, <<11, 12>>, <<12, 11>>, <<11, 21>>}
ConstructorOptions == {NoOptions, [count |-> ManyCount]}
PrimaryKeyTypes == {"string", "number"}

InitCollection ==
  /\ rev \in Revisions
  /\ authentication = FALSE
  /\ kind \in {"entity", "collection"}
  /\ \/ /\ kind = "entity"
        /\ inst = ("$isNew" :> TRUE) @@ [name |-> 0, profile |-> 0]
        /\ heap = (0 :> (("$isNew" :> TRUE) @@ [bio |-> 0]))
        /\ validator = _buildValidator
        /\ lastCall = Constructor(<<>>, NoOptions)
     \/ /\ kind = "collection"
        /\ \E data \in ConstructorData, options \in ConstructorOptions :
             /\ inst = constructor_collection(data, options)
             /\ lastCall = Constructor(data, options)
        /\ heap = [r \in {} |-> 0]
        /\ validator = [f \in {} |-> FALSE]
  /\ state = constructor_state(rev, kind)
  /\ fetchRec = NoFetch
  /\ calls = [c \in Calls |-> NoCall]
  /\ consumed = {}
  /\ baseUrl = "https://api"
  /\ endpoint = "users"
  /\ primaryKeyType \in PrimaryKeyTypes
  /\ schema = init(User("UUID", [type |-> "STRING"], "HASONE"))
  /\ errors = NoErrors
  /\ serialized = NoBody
  /\ FieldTypes = static_block(TRUE)

\* add() is made while the list and the total count are below their bounds
Room == isCollection /\ length < MaxLen /\ inst["$count"] < MaxCount

NextCollection ==
  \/ \E item \in ItemPool : Room /\ add(item)
  \/ \E ref \in Refs : remove(ref)
  \/ \E ref \in Refs : find(ref)
  \/ \E ref \in Refs : exists(ref)
  \/ \E item \in ItemPool :
       /\ isCollection
       /\ Room \/ exists_(rev, inst, Ref("object", item)).result.bool
       /\ toggle(item)
  \/ clear
  \/ \E op \in CollectionOnly : _allowCollection(op)
  \/ \E op \in EntityOnly \ {"valid"} : _denyCollection(op)
  \/ valid_collection

SpecCollection == InitCollection /\ [][NextCollection]_vars

(***************************************************************************)
(* C14  A collection never holds more items than its total count: in every *)
(* reachable state length <= count, whatever the collection was built      *)
(* from and whichever of add, remove, toggle, clear and the merges of      *)
(* fetched pages (replacing or extending) it has gone through.             *)
(***************************************************************************)
C14_LengthWithinCount == LiveCollection => length <= inst["$count"]

\* a collection has taken two pages of bare records, the second by getMore
C14_TwoBarePages ==
  /\ LiveCollection /\ length = 2 * MaxRows
  /\ calls[1].pc = "resolved" /\ calls[1].status = "ok" /\ ~calls[1].extend
  /\ calls[2].pc = "resolved" /\ calls[2].status = "ok" /\ calls[2].extend
  /\ inst["items"] = Rows(1, MaxRows) \o Rows(2, MaxRows)

(***************************************************************************)
(* C15  A collection built from N items holds them, N of them, in the      *)
(* order given; built without a count its total count is N and hasMore is  *)
(* false, built with a count C > N its total count is C and hasMore is     *)
(* true.  add(item) appends the item at the end, adds 1 to the total count *)
(* and returns the appended instance.                                      *)
(***************************************************************************)
\* this step is a call of the method op
Calls_(op) == lastCall'.op = op /\ lastCall' # lastCall

C15_BuildAndAdd ==
  /\ [](lastCall.op = "constructor" /\ kind = "collection" =>
          /\ inst["items"] = lastCall.data
          /\ length = Len(lastCall.data)
          /\ ~has(lastCall.options, "count") =>
                (inst["$count"] = Len(lastCall.data) /\ ~hasMore)
          /\ (has(lastCall.options, "count")
                /\ lastCall.options["count"] > Len(lastCall.data)) =>
                (inst["$count"] = lastCall.options["count"] /\ hasMore))
  /\ [][(isCollection /\ Calls_("add")) =>
          /\ inst'["items"] = Append(inst["items"], lastCall'.ref.item)
          /\ inst'["$count"] = inst["$count"] + 1
          /\ lastCall'.result = Instance(lastCall'.ref.item)
          /\ lastCall'.thrown = "none"]_vars

\* a collection built from two items with a total count of 4 has had a third
\* item added to it
C15_AddedToBuilt ==
  /\ kind = "collection"
  /\ lastCall.op = "add" /\ lastCall.ref.item = 21
  /\ inst["items"] = <<12, 11, 21>> /\ inst["$count"] = ManyCount + 1
  /\ hasMore

(***************************************************************************)
(* C16  remove(ref) with no matching item returns null and leaves the      *)
(* items, the length and the total count as they were; with a match it     *)
(* removes the first matching item and no other, takes 1 from the length   *)
(* and from the total count, keeps the other items in their order, and     *)
(* returns the removed item.                                               *)
(***************************************************************************)
\* the method of this step was given a reference its revision can resolve
Resolvable == isFunction(rev, lastCall'.ref)

\* the first item of the list that ref denotes, 0 if there is none
FirstMatch(ref) == findIndex(inst["items"], ref)

C16_RemoveFirstMatch ==
  [][(isCollection /\ Calls_("remove") /\ Resolvable) =>
       LET index == FirstMatch(lastCall'.ref)
       IN IF index = 0
          THEN /\ lastCall'.result = Null
               /\ inst' = inst
          ELSE /\ inst'["items"] = splice(inst["items"], index)
               /\ Len(inst'["items"]) = length - 1
               /\ inst'["$count"] = inst["$count"] - 1
               /\ lastCall'.result = Instance(inst["items"][index])]_vars

\* the first of two items with primary key 1 has been removed by its key
C16_RemovedFirstOfTwo ==
  /\ kind = "collection"
  /\ lastCall.op = "remove" /\ lastCall.ref.type \in {"string", "object"}
  /\ lastCall.result.items = <<11>>
  /\ inst["items"] = <<21>>

(***************************************************************************)
(* C17  toggle(item) undoes itself: after two calls in a row with the same *)
(* reference the collection holds the primary keys it held before, and     *)
(* its length and total count are what they were; also when the            *)
(* collection held several items with that primary key.                    *)
(***************************************************************************)
\* the primary keys present in a list
Keys(list) == {primaryKey(list[n]) : n \in 1..Len(list)}

\* the instance after toggle(item) twice
toggledTwice(item) == toggle_(rev, toggle_(rev, inst, item).inst, item).inst

C17_ToggleTwiceRestores ==
  kind = "collection" =>
    \A item \in ItemPool :
      /\ Keys(toggledTwice(item)["items"]) = Keys(inst["items"])
      /\ Len(toggledTwice(item)["items"]) = length
      /\ toggledTwice(item)["$count"] = inst["$count"]

\* of two items with primary key 1 a first toggle has removed one, and the
\* other one still answers to the reference
C17_OneOfTwoToggledOut ==
  /\ kind = "collection"
  /\ lastCall.op = "toggle" /\ lastCall.ref.item = 11
  /\ lastCall.result = Array(<<11>>)
  /\ inst["items"] = <<21>>

(***************************************************************************)
(* C18  find, exists and remove resolve their reference by one rule: a     *)
(* predicate is applied as it is, a bare primary-key value (a string or a  *)
(* number) denotes the items whose primary key equals it, an object        *)
(* denotes the items whose primary key equals its own.  find returns the   *)
(* first item denoted, or null; exists tells whether there is one; remove  *)
(* takes the first item denoted out.                                       *)
(***************************************************************************)
\* the items of the list that carry the primary key ref stands for
Denoted(list, ref) ==
  {n \in 1..Len(list) :
     primaryKey(list[n]) = IF ref.type = "object" THEN primaryKey(ref.item)
                           ELSE ref.item}

\* the first of them, 0 if there is none
FirstDenoted(list, ref) ==
  IF Denoted(list, ref) = {} THEN 0
  ELSE CHOOSE n \in Denoted(list, ref) : \A j \in Denoted(list, ref) : n <= j

C18_OneRuleForReferences ==
  [][\A op \in {"find", "exists", "remove"} :
       (isCollection /\ Calls_(op)) =>
         LET index == FirstDenoted(inst["items"], lastCall'.ref)
         IN /\ lastCall'.thrown = "none"
            /\ op = "find" =>
                 lastCall'.result = IF index = 0 THEN Null
                                    ELSE Instance(inst["items"][index])
            /\ op = "exists" => lastCall'.result = Bool(index # 0)
            /\ op = "remove" =>
                 IF index = 0 THEN lastCall'.result = Null /\ inst' = inst
                 ELSE inst'["items"] = splice(inst["items"], index)]_vars

\* find has been given a number, the primary key of the first item
C18_FoundByNumber ==
  /\ kind = "collection" /\ primaryKeyType = "number"
  /\ lastCall.op = "find" /\ lastCall.ref = Ref("number", 1)
  /\ length > 0 /\ primaryKey(inst["items"][1]) = 1

(***************************************************************************)
(* C19  An operation made for collections (items, length, add, remove,     *)
(* find, exists, toggle, clear, isLast, getMore) called on an entity, and  *)
(* an operation made for entities (valid, post, put, patch, save) called   *)
(* on a collection, fails with the wrong-cardinality error, issues no      *)
(* request and changes no field, no count and no fetch-state flag.         *)
(***************************************************************************)
\* this step is an operation called on an instance of the other shape
Misuses(op) ==
  /\ Calls_(op)
  /\ \/ op \in CollectionOnly /\ ~isCollection
     \/ op \in EntityOnly /\ isCollection

C19_WrongCardinalityFails ==
  [][\A op \in CollectionOnly \cup EntityOnly :
       Misuses(op) =>
         /\ lastCall'.thrown = "WrongCardinality"
         /\ calls' = calls /\ fetchRec' = fetchRec
         /\ inst' = inst /\ heap' = heap
         /\ state' = state]_vars

\* valid() has been called on a collection
C19_ValidOnCollection ==
  kind = "collection" /\ lastCall.op = "valid"

(***************************************************************************)
(* Classes that are not fully configured.  model.js and part_005 take the  *)
(* base URL in config(), which throws without one, and init() throws       *)
(* before config(): a class has its base URL or nothing.  part_004 takes   *)
(* base URL and endpoint in init(), both optional.                         *)
(***************************************************************************)
Unconfigured ==
  /\ primaryKeyType = "string"
  /\ \/ baseUrl = "" /\ endpoint = ""
     \/ baseUrl = "https://api" /\ endpoint = ""
     \/ rev = "part_004" /\ baseUrl = "" /\ endpoint = "users"

InitConfig == Built /\ Unconfigured

SpecConfig == InitConfig /\ [][Next]_vars

(***************************************************************************)
(* C20  fetch on a model whose endpoint or base URL is missing fails with  *)
(* a configuration error before anything else happens: no request is      *)
(* issued, no flag changes, and the remembered options are left as they    *)
(* were.                                                                   *)
(***************************************************************************)
C20_UnconfiguredFetchFails ==
  /\ [][\A c \in Calls :
          (baseUrl = "" \/ endpoint = "") => ~Enters(c)]_vars
  /\ [][Calls_("fetch") =>
          /\ lastCall'.thrown = "ConfigurationError"
          /\ calls' = calls /\ state' = state /\ fetchRec' = fetchRec]_vars

\* a request has gone to the transport from a class without a base URL
C20_RequestWithoutBaseUrl ==
  /\ baseUrl = "" /\ endpoint = "users"
  /\ calls[1].pc = "request"

(***************************************************************************)
(* Validation.                                                             *)
(***************************************************************************)
\* fieldconf.type.isBlank(value) of the field types
isBlank(type, value) ==
  CASE type \in {"STRING", "UUID"} -> value = "''"
    [] type = "HASMANY" -> Len(value.items) = 0
    [] type \in {"HASONE", "BELONGSTO"} -> value.type = "null"

\* fieldconf.type.isValid(value) of the field types
isValid_type(type, value) ==
  CASE type \in {"STRING", "UUID"} -> value \in Strings
    [] type = "HASMANY" -> value.type = "collection"
    [] type \in {"HASONE", "BELONGSTO"} ->
         value.type = "entity" /\ has(value.items[1].fields, primaryKeyFieldname)

\* the validity functions a schema of the model gives for a field
isValid_custom(fn, value) ==
  CASE fn = "() => true" -> TRUE
    [] fn = "(value) => value !== 'Ann'" -> value # "'Ann'"

\* a validator that takes the blank test alone
isValid_blankOnly(fieldconf, value) ==
  isBlank(fieldconf.type, value) /\ fieldconf.allowBlank

\* validator[fieldname].isValid(value, data) as _buildValidator() makes it
isValid(fieldconf, value) ==
  /\ \/ isBlank(fieldconf.type, value) /\ fieldconf.allowBlank
     \/ ~isBlank(fieldconf.type, value) /\ isValid_type(fieldconf.type, value)
  /\ isValid_custom(fieldconf.isValid, value)

\* a fielditem of a fieldlist: 'name', ['name', null] or ['name', fieldlist]
Direct(name) == [name |-> name, pair |-> FALSE, fieldlist |-> <<>>, given |-> FALSE]
Pair(name) == [name |-> name, pair |-> TRUE, fieldlist |-> <<>>, given |-> FALSE]
Nested(name, fieldlist) ==
  [name |-> name, pair |-> TRUE, fieldlist |-> fieldlist, given |-> TRUE]

NoTree == [f \in {} |-> 0]

\* _getValidationErrors(fieldlist) on the entity this: the entity with the
\* checked flags it sets, the errors it returns, and what it throws
RECURSIVE _getValidationErrors(_, _, _, _)
_getValidationErrors(r, sch, this, fieldlist) ==
  LET NotFound == [error |-> "NOT_FOUND"]
      NotValid(value) == [value |-> value, error |-> "NOT_VALID"]
      \* the errors of validating fieldname as a direct field of e
      direct(e, fieldname) ==
        IF isValid(sch[fieldname], e.fields[fieldname]) THEN NoTree
        ELSE (fieldname :> NotValid(e.fields[fieldname]))
      \* the nested entities of the association field, each validated (none
      \* of them has a field outside its schema, so none of these throws)
      inner(e, fielditem) ==
        LET value == e.fields[fielditem.name]
        IN [i \in 1..Len(value.items) |->
              _getValidationErrors(r, Profile, value.items[i], fielditem.fieldlist)]
      \* the entity with the flags the nested validations have set
      after(e, fielditem, results) ==
        [e EXCEPT !.fields[fielditem.name].items =
                     [i \in DOMAIN results |-> results[i].this]]
      failing(results) ==
        SelectSeq([i \in DOMAIN results |-> results[i].errors.tree],
                  LAMBDA tree : DOMAIN tree # {})
      \* part_004: associationErrors, recorded if it has a length or a size
      \* (the array of a HasMany field is written [items |-> the array])
      association_part_004(acc, e, fielditem) ==
        LET fieldname == fielditem.name
            type == sch[fieldname].type
            value == e.fields[fieldname]
            results == inner(e, fielditem)
        IN IF ~fielditem.given
           THEN [this |-> e,
                 tree |-> IF direct(e, fieldname) = NoTree THEN acc.tree
                          ELSE Put(acc.tree, fieldname, direct(e, fieldname)),
                 thrown |-> "none"]
           ELSE IF type \notin AssociationTypes \/ value.type = "null"
           \* associationErrors is undefined: reading its length throws
           THEN [this |-> e, tree |-> acc.tree, thrown |-> "TypeError"]
           ELSE [this |-> after(e, fielditem, results),
                 tree |-> IF failing(results) = <<>> THEN acc.tree
                          ELSE IF type = "HASMANY"
                          THEN Put(acc.tree, fieldname, [items |-> failing(results)])
                          ELSE Put(acc.tree, fieldname, failing(results)[1]),
                 thrown |-> "none"]
      \* model.js, part_005: mergeErrors for the field itself, then for the
      \* nested entity or for each item, each under the same key
      association_model_js(acc, e, fielditem) ==
        LET fieldname == fielditem.name
            type == sch[fieldname].type
            value == e.fields[fieldname]
            results == inner(e, fielditem)
            own == IF direct(e, fieldname) = NoTree THEN acc.tree
                   ELSE Put(acc.tree, fieldname, direct(e, fieldname))
        IN IF ~fielditem.given \/ type \notin AssociationTypes \/ value.type = "null"
           THEN [this |-> e, tree |-> own, thrown |-> "none"]
           ELSE [this |-> after(e, fielditem, results),
                 tree |-> IF failing(results) = <<>> THEN own
                          ELSE Put(own, fieldname,
                                   failing(results)[Len(failing(results))]),
                 thrown |-> "none"]
      \* one turn of the loop over the fieldlist
      turn(acc, fielditem) ==
        LET fieldname == fielditem.name
            e == acc.this
            marked == [e EXCEPT !.checked[fieldname] = TRUE]
        IN IF acc.thrown # "none" THEN acc
           ELSE IF ~has(e.fields, fieldname)
           THEN [acc EXCEPT !.tree = Put(@, fieldname, NotFound)]
           \* a field that is no field of the schema has no validator
           ELSE IF ~has(e.checked, fieldname)
           THEN [acc EXCEPT !.thrown = "TypeError"]
           ELSE IF ~fielditem.pair
           THEN [this |-> marked,
                 tree |-> IF direct(e, fieldname) = NoTree THEN acc.tree
                          ELSE Put(acc.tree, fieldname, direct(e, fieldname)[fieldname]),
                 thrown |-> "none"]
           ELSE IF r = "part_004" THEN association_part_004(acc, marked, fielditem)
           ELSE association_model_js(acc, marked, fielditem)
      RECURSIVE loop(_, _)
      loop(acc, i) ==
        IF i > Len(fieldlist) THEN acc ELSE loop(turn(acc, fieldlist[i]), i + 1)
      done == loop([this |-> this, tree |-> NoTree, thrown |-> "none"], 1)
  IN [this |-> done.this,
      \* part_004 returns the Map, model.js and part_005 null for no error
      errors |-> [null |-> r # "part_004" /\ DOMAIN done.tree = {},
                  tree |-> done.tree],
      thrown |-> done.thrown]

(***************************************************************************)
(* Serialization.                                                          *)
(***************************************************************************)
\* _beforeSerializeItem(options) on the entity this: the fields of the
\* validator table, with removeInvalid the checked and valid ones only,
\* each through type.beforeSerialize
RECURSIVE _beforeSerializeItem(_, _, _)
_beforeSerializeItem(sch, this, removeInvalid) ==
  LET beforeSerialize(fieldname) ==
        LET type == sch[fieldname].type
        IN IF type \notin AssociationTypes
           THEN IF has(this.fields, fieldname) THEN this.fields[fieldname]
                ELSE "undefined"
           ELSE IF ~has(this.fields, fieldname) \/ this.fields[fieldname].type = "null"
           THEN [type |-> "null", items |-> <<>>]
           ELSE [type |-> IF this.fields[fieldname].type = "entity" THEN "object"
                          ELSE "array",
                 items |-> [i \in DOMAIN this.fields[fieldname].items |->
                              _beforeSerializeItem(Profile,
                                this.fields[fieldname].items[i], removeInvalid)]]
      sent(fieldname) ==
        \/ ~removeInvalid
        \/ /\ this.checked[fieldname]
           /\ has(this.fields, fieldname)
           /\ isValid(sch[fieldname], this.fields[fieldname])
  IN [fieldname \in {f \in DOMAIN this.checked : sent(f)} |-> beforeSerialize(fieldname)]

(***************************************************************************)
(* An entity of the model User: what the application builds it from, the   *)
(* fields it validates and writes, and the requests it has built for it.   *)
(***************************************************************************)
\* the entity as the methods of the class see it
this_ == [fields |-> inst, checked |-> validator]

\* valid(fieldlist) on an entity: the save flags are reset, the fields are
\* validated, and the result is whether no error came back
valid_entity(fieldlist) ==
  /\ ~isCollection
  /\ LET res == _getValidationErrors(rev, schema, this_, fieldlist)
         k == keys(rev).entry.save
     IN /\ state' = Put(Put(Put(state, k.inProgress, FALSE), k.succeeded, FALSE),
                        k.failed, FALSE)
        /\ inst' = res.this.fields
        /\ validator' = res.this.checked
        /\ errors' = IF res.thrown = "none" THEN res.errors ELSE errors
        /\ lastCall' = Call("valid", fieldlist, NoOptions, NoRef,
                            IF res.thrown = "none"
                            THEN Bool(DOMAIN res.errors.tree = {}) ELSE Undefined,
                            res.thrown)
  /\ UNCHANGED <<rev, authentication, kind, heap, fetchRec, calls, consumed,
                 baseUrl, endpoint, primaryKeyType, schema, serialized, FieldTypes>>

\* the application writes a field of the entity
assign(fieldname, value) ==
  /\ ~isCollection
  /\ inst' = Put(inst, fieldname, value)
  /\ lastCall' = Call("assign", <<>>, NoOptions, NoRef, Undefined, "none")
  /\ UNCHANGED <<rev, authentication, kind, heap, validator, state, fetchRec, calls,
                 consumed, statics>>

\* beforeSerialize(options) of part_004, _beforeSave(options) of model.js and
\* beforeSave(options) of part_005, on an entity
serialize(r, removeInvalid) == _beforeSerializeItem(schema, this_, removeInvalid)

\* the body _buildRequestInit() gives a POST, PUT or PATCH request: the
\* entity serialized with removeInvalid.  part_004 calls JSON.stringyfy,
\* which is no function, and builds no request
requestInit_body(method) ==
  /\ ~isCollection
  /\ IF rev = "part_004"
     THEN /\ serialized' = serialized
          /\ lastCall' = Call("_buildRequestInit", <<>>, [method |-> method], NoRef,
                              Undefined, "TypeError")
     ELSE /\ serialized' = serialize(rev, TRUE)
          /\ lastCall' = Call("_buildRequestInit", <<>>, [method |-> method], NoRef,
                              Undefined, "none")
  /\ UNCHANGED <<rev, authentication, kind, inst, heap, validator, state, fetchRec,
                 calls, consumed, baseUrl, endpoint, primaryKeyType, schema, errors,
                 FieldTypes>>

\* the entity serialized without options, as toJSON() and clone() do
beforeSerialize ==
  /\ ~isCollection
  /\ serialized' = serialize(rev, FALSE)
  /\ lastCall' = Call("beforeSerialize", <<>>, NoOptions, NoRef, Undefined, "none")
  /\ UNCHANGED <<rev, authentication, kind, inst, heap, validator, state, fetchRec,
                 calls, consumed, baseUrl, endpoint, primaryKeyType, schema, errors,
                 FieldTypes>>

\* the schemas of the model: the type of the primary key, what the schema
\* says of the field title, and the kind of the association
Schemas ==
  LET plain == [type |-> "STRING"]
  IN {User("UUID", plain, "HASONE"),
      User("UUID", plain, "BELONGSTO"),
      User("UUID", plain, "HASMANY"),
      User("STRING", plain, "HASONE"),
      User("UUID", [type |-> "STRING", allowBlank |-> TRUE], "HASONE"),
      User("UUID", [type |-> "STRING", isValid |-> "(value) => value !== 'Ann'"],
           "HASMANY")}

\* what the application or the server gives the constructor (a HasMany
\* field is never given null)
InputData(association) ==
  LET object(fields) == [type |-> "object", items |-> <<fields>>]
      array(list) == [type |-> "array", items |-> list]
      blank == [bio |-> "''"]
      filled == [bio |-> "'Ann'"]
  IN {[key \in {} |-> ""],
      [title |-> "'Ann'"],
      [name |-> "'Bob'", title |-> "''"],
      [name |-> "''"],
      [name |-> "0"],
      [name |-> "'Bob'", primaryKey |-> "'Ann'"],
      [title |-> "'Ann'", extra |-> "'Bob'"]}
     \cup (IF association = "HASMANY"
           THEN {[profile |-> array(<<>>)],
                 [profile |-> array(<<filled, filled>>)],
                 [profile |-> array(<<blank, filled>>)],
                 [profile |-> array(<<blank, blank>>)]}
           ELSE {[profile |-> [type |-> "null", items |-> <<>>]],
                 [profile |-> object(blank)],
                 [profile |-> object(filled)]})

\* the fieldlists the application validates
Fieldlists ==
  {<<>>,
   <<Direct("title")>>, <<Direct("name")>>, <<Direct("profile")>>,
   <<Direct("missing")>>, <<Direct("extra")>>,
   <<Direct("title"), Direct("missing")>>,
   <<Pair("profile")>>,
   <<Nested("profile", <<>>)>>,
   <<Nested("profile", <<Direct("bio")>>)>>}

InitEntity ==
  /\ rev \in Revisions
  /\ authentication = FALSE
  /\ kind = "entity"
  /\ \E fields \in Schemas :
       /\ schema = init(fields)
       /\ \E data \in InputData(fields.profile.type),
             options \in {NoOptions, [isNew |-> FALSE]} :
            /\ inst = ("$isNew" :> isNewOf(options))
                        @@ build_entity(schema, data, options).fields
            /\ validator = build_entity(schema, data, options).checked
            /\ lastCall = Constructor(<<data>>, options)
  /\ heap = [r \in {} |-> 0]
  /\ state = constructor_state(rev, kind)
  /\ fetchRec = NoFetch
  /\ calls = [c \in Calls |-> NoCall]
  /\ consumed = {}
  /\ errors = NoErrors
  /\ serialized = NoBody
  /\ FieldTypes = static_block(TRUE)
  /\ Configured

\* the application serializes the entity when it is done with it
Editing == serialized = NoBody /\ lastCall.op # "_buildRequestInit"

NextEntity ==
  \/ \E fieldlist \in Fieldlists : Editing /\ valid_entity(fieldlist)
  \/ \E value \in {"''", "'Ann'", "'Bob'"} : Editing /\ assign("title", value)
  \/ \E method \in SaveMethods : requestInit_body(method)
  \/ beforeSerialize

SpecEntity == InitEntity /\ [][NextEntity]_vars

(***************************************************************************)
(* What the properties of entities read.                                   *)
(***************************************************************************)
\* the state is the one new Model(data, options) has returned
Built_ == lastCall.op = "constructor"
Input == lastCall.data[1]
BuiltNew == Built_ /\ isNewOf(lastCall.options)

\* a nested entity of the model Profile with these fields, unvalidated
Nested_(name, bio) ==
  [fields |-> [name |-> name, bio |-> bio], checked |-> [name |-> TRUE, bio |-> FALSE]]

(***************************************************************************)
(* C21  A new entity built from no input has a value for every field of    *)
(* the schema, the default of the field as beforeBuild leaves it; its      *)
(* primary key is a generated value that is not empty; and the entity a    *)
(* HasOne field defaults to has the primary key of its owner.              *)
(***************************************************************************)
C21_DefaultsOf(primaryKey_, nestedKey) ==
  (BuiltNew /\ DOMAIN Input = {}) =>
    /\ DOMAIN schema \subseteq DOMAIN inst
    /\ inst["$isNew"]
    /\ inst["name"] = primaryKey_
    /\ inst["title"] = "''"
    /\ inst["profile"] =
         CASE schema["profile"].type = "HASMANY" -> [type |-> "collection", items |-> <<>>]
           [] schema["profile"].type = "HASONE" ->
                [type |-> "entity", items |-> <<Nested_(nestedKey, "''")>>]
           [] schema["profile"].type = "BELONGSTO" ->
                [type |-> "entity", items |-> <<Nested_("'uuid-2'", "''")>>]

Kept(fieldname) ==
  inst[fieldname] =
    beforeBuild(schema[fieldname].type, Input[fieldname], lastCall.options)

\* C22: a new entity has for every schema field the input gives the value
\* of the input
C22_SuppliedValuesKept ==
  BuiltNew => \A fieldname \in DOMAIN schema \cap DOMAIN Input : Kept(fieldname)

\* a new entity given the key 0 has a generated key instead
C22_ZeroKeyReplaced ==
  /\ BuiltNew
  /\ has(Input, "name") /\ Input["name"] = "0"
  /\ inst["name"] = "'uuid-1'"

(***************************************************************************)
(* C23  A field of the input that is no field of the schema is on the      *)
(* built entity with the value the input gives, for an entity built from   *)
(* server data (isNew = false) and for a new entity (isNew = true).        *)
(***************************************************************************)
C23_UnknownFieldsPassThrough ==
  Built_ => \A fieldname \in DOMAIN Input \ DOMAIN schema :
              has(inst, fieldname) /\ inst[fieldname] = Input[fieldname]

\* a new entity was given a field outside its schema and does not have it
C23_UnknownFieldDropped ==
  BuiltNew /\ has(Input, "extra") /\ ~has(inst, "extra")

(***************************************************************************)
(* C24  valid([fieldname]) with a direct field name.  When the entity has  *)
(* no such field the call records NOT_FOUND under that name and no checked *)
(* flag changes; when the entity has the field the call sets the checked   *)
(* flag of that field and of no other, and records NOT_VALID with the      *)
(* value of the field exactly when the validity rule of the field fails.   *)
(***************************************************************************)
Validates(fieldlist) == lastCall'.op = "valid" /\ lastCall'.data = fieldlist

DirectValidation(fieldname) ==
  IF ~has(inst, fieldname)
  THEN /\ lastCall'.thrown = "none"
       /\ errors'.tree = (fieldname :> [error |-> "NOT_FOUND"])
       /\ validator' = validator
  ELSE /\ lastCall'.thrown = "none"
       /\ has(validator', fieldname)
       /\ validator' = [validator EXCEPT ![fieldname] = TRUE]
       /\ has(schema, fieldname)
       /\ errors'.tree =
            IF isValid(schema[fieldname], inst[fieldname]) THEN NoTree
            ELSE (fieldname :> [value |-> inst[fieldname], error |-> "NOT_VALID"])

\* C24: valid([fieldname]) records NOT_FOUND and changes no flag for a field
\* the entity has not, and for a field it has sets that flag alone and
\* records NOT_VALID with the value exactly when the rule fails
C24_DirectFieldValidation ==
  [][\A fieldname \in {"title", "name", "profile", "missing", "extra"} :
       Validates(<<Direct(fieldname)>>) => DirectValidation(fieldname)]_vars

\* a field the entity has, outside its schema, was validated and the call
\* threw instead of returning errors
C24_AdHocFieldThrows ==
  /\ lastCall.op = "valid" /\ lastCall.data = <<Direct("extra")>>
  /\ has(inst, "extra")
  /\ lastCall.thrown = "TypeError"

(***************************************************************************)
(* C25  valid([['profile', ['bio']]]) on an entity whose field profile is  *)
(* a HasMany association validates every item of the collection, and the   *)
(* error recorded for profile holds one sub-tree for each item that has    *)
(* errors and none for the others; with no item, or no item with errors,   *)
(* nothing is recorded for profile.                                        *)
(***************************************************************************)
NestedBio == <<Nested("profile", <<Direct("bio")>>)>>

\* what validating ['bio'] on one item of the collection gives
ItemErrors(item) ==
  IF isValid(Profile["bio"], item.fields["bio"]) THEN NoTree
  ELSE ("bio" :> [value |-> item.fields["bio"], error |-> "NOT_VALID"])

SubTrees(items) ==
  SelectSeq([i \in DOMAIN items |-> ItemErrors(items[i])],
            LAMBDA tree : DOMAIN tree # {})

HasManyValidation ==
  (/\ Validates(NestedBio)
   /\ schema["profile"].type = "HASMANY"
   /\ has(inst, "profile"))
    => /\ lastCall'.thrown = "none"
       /\ \A i \in DOMAIN inst["profile"].items :
            inst'["profile"].items[i].checked["bio"]
       /\ errors'.tree =
            IF SubTrees(inst["profile"].items) = <<>> THEN NoTree
            ELSE ("profile" :> [items |-> SubTrees(inst["profile"].items)])

\* C25: validating a HasMany association with nested selectors validates
\* every item and records one sub-tree per item with errors, or nothing
C25_HasManyAggregatesItemErrors == [][HasManyValidation]_vars

\* two items of the collection have errors and the error recorded for the
\* association is the sub-tree of one item
C25_OneSubTreeForTwoItems ==
  /\ lastCall.op = "valid" /\ lastCall.data = NestedBio
  /\ schema["profile"].type = "HASMANY" /\ has(inst, "profile")
  /\ Len(SubTrees(inst["profile"].items)) = 2
  /\ errors.tree = ("profile" :> ItemErrors(inst["profile"].items[2]))

(***************************************************************************)
(* C26  valid([['profile', ['bio']]]) on an entity whose field profile is  *)
(* a HasOne or BelongsTo association marks profile checked and returns     *)
(* normally; it validates the nested entity when there is one, and when    *)
(* profile is null it validates nothing nested and records no sub-tree of  *)
(* a nested entity.                                                        *)
(***************************************************************************)
SingleValidation ==
  (/\ Validates(NestedBio)
   /\ schema["profile"].type \in {"HASONE", "BELONGSTO"}
   /\ has(inst, "profile"))
    => /\ lastCall'.thrown = "none"
       /\ validator'["profile"]
       /\ IF inst["profile"].type = "null"
          THEN /\ inst' = inst
               /\ ~(has(errors'.tree, "profile") /\ has(errors'.tree["profile"], "bio"))
          ELSE inst'["profile"].items[1].checked["bio"]

\* C26: validating a HasOne or BelongsTo association with nested selectors
\* returns normally and marks it checked, and skips a null nested entity
C26_NullAssociationSkipped == [][SingleValidation]_vars

\* the nested entity is null and the validation of its selectors threw
C26_NullAssociationThrows ==
  /\ lastCall.op = "valid" /\ lastCall.data = NestedBio
  /\ schema["profile"].type \in {"HASONE", "BELONGSTO"}
  /\ has(inst, "profile") /\ inst["profile"].type = "null"
  /\ validator["profile"]
  /\ lastCall.thrown = "TypeError"

(***************************************************************************)
(* C27  A validation that returns gives null exactly when it has produced  *)
(* no error at any depth, and valid(fieldlist) returns true exactly then;  *)
(* valid([]) returns true on every entity.                                 *)
(***************************************************************************)
ValidationReturns ==
  (lastCall'.op = "valid" /\ lastCall'.thrown = "none")
    => /\ errors'.null <=> (DOMAIN errors'.tree = {})
       /\ lastCall'.result = Bool(errors'.null)

ValidatesNothing ==
  Validates(<<>>) => lastCall'.thrown = "none" /\ lastCall'.result = Bool(TRUE)

\* C27: validation returns null exactly when there is no error, valid()
\* returns true exactly then, and valid([]) returns true
C27_NullIffNoErrors == [][ValidationReturns /\ ValidatesNothing]_vars

\* a validation has produced no error and has returned an error tree
C27_EmptyTreeReturned ==
  /\ lastCall.op = "valid" /\ lastCall.data = <<>> /\ lastCall.thrown = "none"
  /\ lastCall.result = Bool(TRUE)
  /\ errors.tree = NoTree /\ ~errors.null

(***************************************************************************)
(* C28  The validator of a field takes a value for valid exactly when      *)
(*   ((the type finds it blank and the schema allows blank) or             *)
(*    (the type finds it not blank and finds it valid))                    *)
(*   and the validity function of the schema accepts it,                   *)
(* where a schema that gives no allowBlank allows no blank and a schema    *)
(* that gives no isValid accepts every value.  Read on valid([fieldname]): *)
(* an error is recorded for the field exactly when the rule fails.         *)
(***************************************************************************)
\* the rule, read from the field as the application has written it
ValidityRule(fieldconf, value) ==
  LET allowBlank == IF has(fieldconf, "allowBlank") THEN fieldconf.allowBlank
                    ELSE FALSE
      customIsValid == IF has(fieldconf, "isValid")
                       THEN isValid_custom(fieldconf.isValid, value) ELSE TRUE
      typeIsBlank == isBlank(fieldconf.type, value)
      typeIsValid == isValid_type(fieldconf.type, value)
  IN /\ (typeIsBlank /\ allowBlank) \/ (~typeIsBlank /\ typeIsValid)
     /\ customIsValid

ValidatorFollowsRule ==
  \A fields \in Schemas : schema = init(fields) =>
    \A fieldname \in DOMAIN fields :
      (Validates(<<Direct(fieldname)>>) /\ has(inst, fieldname))
        => /\ lastCall'.thrown = "none"
           /\ has(errors'.tree, fieldname)
                <=> ~ValidityRule(fields[fieldname], inst[fieldname])
           /\ lastCall'.result = Bool(ValidityRule(fields[fieldname], inst[fieldname]))

\* C28: an error is recorded for a validated field exactly when the validity
\* rule read from its schema fails
C28_ValidatorRule == [][ValidatorFollowsRule]_vars

\* a blank value of a field whose schema allows blank was validated and no
\* error was recorded
C28_AllowedBlankIsValid ==
  /\ lastCall.op = "valid" /\ lastCall.data = <<Direct("title")>>
  /\ schema["title"].allowBlank
  /\ has(inst, "title") /\ inst["title"] = "''"
  /\ errors.tree = NoTree
  /\ lastCall.result = Bool(TRUE)

(***************************************************************************)
(* C29  Building the request of a POST, PUT or PATCH gives it for body the *)
(* entity serialized with removeInvalid: a field of the schema is in the   *)
(* body exactly when its checked flag is set and its value is valid as the *)
(* request is built, with the value the entity holds; serialized without   *)
(* removeInvalid, the entity gives every field of its validator table.     *)
(***************************************************************************)
\* the field is checked and its value passes the rule of its schema
CheckedAndValid(fields, fieldname) ==
  /\ validator[fieldname]
  /\ has(inst, fieldname)
  /\ ValidityRule(fields[fieldname], inst[fieldname])

BodyOfRequest ==
  lastCall'.op = "_buildRequestInit"
    => /\ lastCall'.thrown = "none"
       /\ \A fields \in Schemas : schema = init(fields) =>
            /\ DOMAIN serialized' \subseteq DOMAIN fields
            /\ \A fieldname \in DOMAIN fields :
                 has(serialized', fieldname) <=> CheckedAndValid(fields, fieldname)
            /\ \A fieldname \in DOMAIN serialized' \cap {"name", "title"} :
                 serialized'[fieldname] = inst[fieldname]

SerializedWhole ==
  lastCall'.op = "beforeSerialize" => DOMAIN serialized' = DOMAIN validator

\* C29: the body of a POST, PUT or PATCH request holds exactly the checked
\* and valid fields, and serialization without removeInvalid holds them all
C29_BodyIsCheckedAndValid == [][BodyOfRequest /\ SerializedWhole]_vars

\* the request of a save method was being built and no body came of it
C29_NoBodyBuilt ==
  /\ lastCall.op = "_buildRequestInit" /\ lastCall.options.method = "POST"
  /\ lastCall.thrown = "TypeError"
  /\ serialized = NoBody

(***************************************************************************)
(* The registry of field types in use: the application adds a type and     *)
(* overrides members of types, by any name it likes.                       *)
(***************************************************************************)
\* the own properties every class has, none of them writable
ClassProperties == {"name", "length", "prototype"}

\* this[name] = { ...this[name], ...options }: a plain object of the own
\* enumerable properties of both, those of options first
override_fieldtype(own, name, options) ==
  Put(own, name, [callable |-> FALSE,
                  members |-> options.members @@ own[name].members])

\* FieldTypes.add(name, options)
FieldTypes_add(name, options) ==
  /\ FieldTypes.loaded
  /\ LET own == FieldTypes.own
         thrown == IF ~own["add"].callable \/ name \in ClassProperties
                   THEN "TypeError" ELSE "none"
     IN /\ FieldTypes' = IF thrown # "none" THEN FieldTypes
                         ELSE [FieldTypes EXCEPT !.own = add_fieldtype(own, name, options)]
        /\ lastCall' = Call("add", <<name>>, options, NoRef, Undefined, thrown)
  /\ UNCHANGED <<rev, authentication, kind, inst, heap, validator, state, fetchRec,
                 calls, consumed, baseUrl, endpoint, primaryKeyType, schema, errors,
                 serialized>>

\* FieldTypes.override(name, options)
FieldTypes_override(name, options) ==
  /\ FieldTypes.loaded
  /\ LET own == FieldTypes.own
         thrown == IF ~own["override"].callable THEN "TypeError"
                   ELSE IF ~(has(own, name) \/ name \in ClassProperties)
                   THEN "RestinfrontError"
                   ELSE IF name \in ClassProperties THEN "TypeError"
                   ELSE "none"
     IN /\ FieldTypes' = IF thrown # "none" THEN FieldTypes
                         ELSE [FieldTypes EXCEPT
                                 !.own = override_fieldtype(own, name, options)]
        /\ lastCall' = Call("override", <<name>>, options, NoRef, Undefined, thrown)
  /\ UNCHANGED <<rev, authentication, kind, inst, heap, validator, state, fetchRec,
                 calls, consumed, baseUrl, endpoint, primaryKeyType, schema, errors,
                 serialized>>

\* what the application registers: a descriptor, or the factory of an
\* association type
Descriptors ==
  {[callable |-> FALSE,
    members |-> [defaultValue |-> "() => ''",
                 isBlank |-> "(value) => value === ''",
                 isValid |-> "(value) => isEmail(value)"]],
   [callable |-> TRUE, members |-> [m \in {} |-> ""]]}

\* the members the application overrides
Partials ==
  {[callable |-> FALSE, members |-> [isValid |-> "() => false"]],
   [callable |-> FALSE,
    members |-> [isBlank |-> "() => false",
                 beforeSerialize |-> "(value) => value.trim()"]]}

FieldTypeNames == {"STRING", "PHONE", "HASONE", "EMAIL", "add", "override", "name"}

InitRegistry ==
  /\ rev = "part_004"
  /\ authentication = FALSE
  /\ kind = "entity"
  /\ schema = init(User("UUID", [type |-> "STRING"], "HASONE"))
  /\ inst = ("$isNew" :> TRUE) @@ build_entity(schema, NoOptions, NoOptions).fields
  /\ validator = build_entity(schema, NoOptions, NoOptions).checked
  /\ lastCall = Constructor(<<NoOptions>>, NoOptions)
  /\ heap = [r \in {} |-> 0]
  /\ state = constructor_state(rev, kind)
  /\ fetchRec = NoFetch
  /\ calls = [c \in Calls |-> NoCall]
  /\ consumed = {}
  /\ errors = NoErrors
  /\ serialized = NoBody
  /\ FieldTypes \in {static_block(TRUE), static_block(FALSE)}
  /\ Configured

NextRegistry ==
  \/ \E name \in {"EMAIL", "name"}, options \in Descriptors : FieldTypes_add(name, options)
  \/ \E name \in FieldTypeNames, options \in Partials : FieldTypes_override(name, options)

SpecRegistry == InitRegistry /\ [][NextRegistry]_vars

(***************************************************************************)
(* C30  override(name, partial) with a name that was never registered as a *)
(* field type fails with an error and leaves the registry as it was; with  *)
(* a registered name it returns, gives the descriptor every member of      *)
(* partial, and leaves every other member of the descriptor, and every     *)
(* other field type, as it was.                                            *)
(***************************************************************************)
\* the name has been registered as a field type, by the class or by add()
Registered(name) ==
  has(FieldTypes.own, name) /\ name \notin DOMAIN StaticMethods

Overrides(name, partial) ==
  /\ lastCall'.op = "override" /\ lastCall'.data = <<name>>
  /\ lastCall'.options = partial

OverrideMerges(name, partial) ==
  LET old == FieldTypes.own[name].members
      new == FieldTypes'.own[name].members
  IN /\ lastCall'.thrown = "none"
     /\ DOMAIN new = DOMAIN old \cup DOMAIN partial.members
     /\ \A member \in DOMAIN partial.members : new[member] = partial.members[member]
     /\ \A member \in DOMAIN old \ DOMAIN partial.members : new[member] = old[member]
     /\ \A other \in DOMAIN FieldTypes.own \ {name} :
          FieldTypes'.own[other] = FieldTypes.own[other]

OverrideContract ==
  \A name \in FieldTypeNames, partial \in Partials :
    Overrides(name, partial) =>
      IF Registered(name) THEN OverrideMerges(name, partial)
      ELSE lastCall'.thrown # "none" /\ FieldTypes' = FieldTypes

\* C30: override() fails and changes nothing for a name never registered,
\* and shallow-merges the partial into a registered descriptor
C30_OverrideUnknownFails == [][OverrideContract]_vars

\* override('add', partial) has returned, and add is no function any more
C30_StaticMethodOverridden ==
  /\ lastCall.op = "override" /\ lastCall.data = <<"add">>
  /\ lastCall.thrown = "none"
  /\ ~FieldTypes.own["add"].callable
  /\ DOMAIN FieldTypes.own["add"].members = DOMAIN lastCall.options.members

(***************************************************************************)
(* C31  The read track and the save track are independent: no step of a    *)
(* GET fetch, from its entry to its completion, changes a flag of the save *)
(* track, and no step of a POST, PUT or PATCH fetch changes a flag of the  *)
(* read track or the latch succeededOnce.                                  *)
(***************************************************************************)
\* the properties fetch() writes for a track, and those an observer reads
TrackKeys(track) ==
  LET k == keys(rev)
  IN {k.entry[track].inProgress, k.entry[track].succeeded, k.entry[track].failed,
      k.failure[track].inProgress, k.failure[track].failed,
      k.success[track].inProgress, k.success[track].succeeded}

\* the flags of a track are in state' what they are in state
TrackUntouched(track) ==
  \A key \in TrackKeys(track) : Flag(state', key) = Flag(state, key)

\* this step is a step of call c: the call moves on in fetch()
Moves(c) == calls'[c].pc # calls[c].pc

TracksIndependent ==
  \A c \in Calls :
    Moves(c) =>
      IF calls'[c].method = "GET" THEN TrackUntouched("save")
      ELSE /\ TrackUntouched("get")
           /\ Flag(state', latch(rev)) = Flag(state, latch(rev))

\* C31: a step of a GET fetch leaves the save track as it was, and a step of
\* a POST, PUT or PATCH fetch leaves the read track and its latch as they were
C31_TracksIndependent == [][TracksIndependent]_vars

\* a read has completed on an entity whose save track shows a success
C31_ReadAfterSave ==
  /\ calls[1].method \in SaveMethods /\ calls[1].pc = "resolved"
  /\ calls[1].status = "ok"
  /\ calls[2].method = "GET" /\ calls[2].pc = "resolved" /\ calls[2].status = "ok"
  /\ succeeded("save") /\ succeeded("get")

(***************************************************************************)
(* C32  On each track of the instance the flags succeeded and failed are   *)
(* never both true, also when two fetches of one track overlap and one of  *)
(* them succeeds while the other fails.                                    *)
(***************************************************************************)
C32_SucceededExcludesFailed ==
  \A track \in {"get", "save"} : ~(succeeded(track) /\ failed(track))

\* two reads overlapped, one has failed and the other succeeded, and the
\* read track shows both outcomes
C32_BothOutcomesShown ==
  /\ calls[1].method = "GET" /\ calls[2].method = "GET"
  /\ calls[1].pc = "resolved" /\ calls[2].pc = "resolved"
  /\ {calls[1].status, calls[2].status} = {"ok", "notok"}
  /\ succeeded("get") /\ failed("get")

(***************************************************************************)
(* C33  Whenever fetch() is suspended, a track that reads succeeded reads  *)
(* not in progress, and it came to read succeeded in the step that merged  *)
(* the response into the instance: succeeded is never seen while the merge *)
(* is still to come.                                                       *)
(***************************************************************************)
SucceededIsDone ==
  \A track \in {"get", "save"} : succeeded(track) => ~inProgress(track)

\* the step that makes a track read succeeded is the end of a body read and
\* merge by a call of that track
SucceededByMerge ==
  \A track \in {"get", "save"} :
    (/\ ~succeeded(track)
     /\ Flag(state', getters(rev)[track].succeeded) = "true")
      => \E c \in Calls : /\ Track(calls[c].method) = track
                          /\ calls[c].pc = "body" /\ calls'[c].pc = "resolved"

\* C33: a track that reads succeeded is not in progress and has its response
\* merged
C33_SucceededAfterMerge == [](SucceededIsDone) /\ [][SucceededByMerge]_vars

\* the read track shows succeeded while its one request is still reading the
\* body it has to merge
C33_SucceededBeforeMerge ==
  /\ calls[1].method = "GET" /\ calls[1].pc = "body" /\ calls[2].pc = "idle"
  /\ succeeded("get") /\ inProgress("get")
  /\ inst = constructor_collection(<<>>, NoOptions)

(***************************************************************************)
(* C34  A fetch that fails (a status that is not a success, an error of    *)
(* the transport, a timeout) merges nothing: no step of it changes a field *)
(* of the instance, its item list, its total count or isNew, also when     *)
(* another fetch on the instance has succeeded while it was outstanding.   *)
(***************************************************************************)
\* the call has failed: it was answered, and not with a success
HasFailed(call) == call.status \notin {"none", "ok"}

FailureMergesNothing ==
  \A c \in Calls :
    (Moves(c) /\ HasFailed(calls'[c]))
      => inst' = inst /\ heap' = heap /\ validator' = validator

\* C34: no step of a fetch that fails changes the data of the instance
C34_FailureMergesNothing == [][FailureMergesNothing]_vars

\* a request answered with an error status has completed and the entity
\* holds the fields of the error body
C34_ErrorBodyMerged ==
  /\ rev = "part_004" /\ kind = "entity"
  /\ calls[1].status = "ok"
  /\ calls[2].status = "notok" /\ calls[2].pc = "resolved"
  /\ has(inst, "name") /\ inst["name"] = 2

(***************************************************************************)
(* C35  A collection response is merged in the mode of the request that    *)
(* produced it: the response of a getMore() is appended to the list, the   *)
(* response of a get() replaces the list, whichever request was started    *)
(* last.                                                                   *)
(***************************************************************************)
MergedInOwnMode ==
  \A c \in Calls :
    LET src == calls[c].bodyOf
    IN (/\ Merges(c)
        /\ kind = "collection"
        /\ has(inst, "items")
        /\ build(rev, src, calls[src]).isCollection)
         => LET rows == Rows(src, calls[src].nrows)
            IN inst'["items"] = IF calls[src].extend THEN inst["items"] \o rows
                                ELSE rows

\* C35: every response is appended or replaces as its own request asked
C35_MergedInOwnMode == [][MergedInOwnMode]_vars

\* the response of the get() was appended to the rows of the getMore() that
\* was started after it
C35_GetResponseAppended ==
  /\ kind = "collection"
  /\ ~calls[1].extend /\ calls[1].pc = "resolved" /\ calls[1].status = "ok"
  /\ calls[2].extend /\ calls[2].pc = "resolved" /\ calls[2].status = "ok"
  /\ has(inst, "items")
  /\ inst["items"] = Rows(2, MaxRows) \o Rows(1, MaxRows)

(***************************************************************************)
(* C36  The cardinality of an instance is fixed by its construction: what  *)
(* isCollection answers never changes, also when a fetch is answered with  *)
(* a body of the other cardinality.                                        *)
(***************************************************************************)
\* C36: isCollection answers what the constructor decided
C36_CardinalityConstant == isCollection <=> kind = "collection"

\* an instance built as an entity answers isCollection after a fetch that was
\* answered with a list
C36_EntityBecameCollection ==
  /\ kind = "entity" /\ isCollection
  /\ \E c \in Calls : calls[c].pc = "resolved" /\ calls[c].status = "ok"

(***************************************************************************)
(* C37  Pagination converges: when the server reports the count C of its   *)
(* collection in the envelope of every page, the total count of the        *)
(* collection is C after get() and after each awaited getMore(), and once  *)
(* C records are loaded hasMore is false.                                  *)
(***************************************************************************)
CountFollowsEnvelope ==
  \A c \in Calls :
    LET src == calls[c].bodyOf
    IN (/\ Merging(c)
        /\ kind = "collection"
        /\ calls[c].status = "ok"
        /\ calls[src].shape = "envelope")
         => /\ has(inst', "$count") /\ has(inst', "items")
            /\ inst'["$count"] = calls[src].count
            /\ Len(inst'["items"]) >= calls[src].count => ~hasMore'

\* C37: after each page the total count is the count of its envelope
C37_PaginationConverges == [][CountFollowsEnvelope]_vars


\* a get() of a collection was answered with a success status and its merge
\* has thrown: the collection is as empty as it was built, with count 0
C37_PageLost ==
  /\ rev = "part_004" /\ kind = "collection"
  /\ calls[1].status = "ok" /\ calls[1].pc = "rejected" /\ calls[1].bodyOf = 1
  /\ calls[1].readable
  /\ inst["items"] = <<>> /\ inst["$count"] = 0

(***************************************************************************)
(* C38  Every fetch that has set inProgress on its track completes with    *)
(* inProgress false and exactly one of succeeded and failed true, whatever *)
(* the transport does.  The steps of the program itself are fair: the      *)
(* request is built, the timer counts and fires, a body that has arrived   *)
(* is read and merged.  The transport is not: it may never answer.         *)
(***************************************************************************)
Fairness ==
  /\ WF_vars(tick)
  /\ \A c \in Calls : /\ WF_vars(_buildRequestInit(c))
                      /\ WF_vars(abortTimeout(c))
                      /\ WF_vars(json(c))

SpecLive == Init /\ [][Next]_vars /\ Fairness

\* call c has entered fetch() and no other call was made
OnlyFetch(c) ==
  /\ calls[c].pc = "init"
  /\ \A d \in Calls \ {c} : calls[d].pc = "idle"

\* call c is over and its track shows one outcome
CompletedCleanly(c) ==
  LET track == Track(calls[c].method)
  IN /\ calls[c].pc = "resolved"
     /\ ~inProgress(track)
     /\ succeeded(track) # failed(track)

\* another call was made on the instance
Overlapped(c) == \E d \in Calls \ {c} : calls[d].pc # "idle"

\* C38: a fetch made alone on an instance ends with inProgress false and one
\* outcome, unless another fetch is started before it ends
C38_FetchCompletes ==
  \A c \in Calls : OnlyFetch(c) ~> (CompletedCleanly(c) \/ Overlapped(c))

\* the only fetch of the instance has ended without completing: its promise
\* is rejected and its track is in progress
C38_StuckInProgress ==
  \E c \in Calls :
    /\ calls[c].pc = "rejected" /\ ~Overlapped(c)
    /\ inProgress(Track(calls[c].method))

(***************************************************************************)
(* C39  A getMore() that fails leaves the remembered offset as it was      *)
(* before the call, so that the next getMore() asks for the page that      *)
(* could not be loaded.                                                    *)
(***************************************************************************)
\* this step is the failure of the getMore() made as call c
FailsMore(c) ==
  /\ calls[c].extend /\ fetchRec.options = c
  /\ calls[c].pc = "request" /\ calls'[c].pc # "request"
  /\ HasFailed(calls'[c])

\* the request asked for the offset before it plus the limit: on failure the
\* remembered offset is the one before it again
OffsetRestored ==
  \A c \in Calls :
    FailsMore(c) =>
      calls'[fetchRec'.options].searchParams.offset =
        calls[c].searchParams.offset - calls[c].searchParams.limit

\* C39: the remembered offset after a failed getMore() is the offset before it
C39_FailedMoreKeepsOffset == [][OffsetRestored]_vars

\* a getMore() has failed and the getMore() after it asks for the page after
\* the one that failed
C39_PageSkipped ==
  \E c, d \in Calls :
    /\ calls[c].extend /\ calls[c].pc = "resolved" /\ calls[c].status = "notok"
    /\ calls[d].extend /\ calls[d].pc # "idle" /\ fetchRec.options = d
    /\ calls[d].pathname = calls[c].pathname
    /\ calls[d].searchParams.offset =
         calls[c].searchParams.offset + calls[c].searchParams.limit

(***************************************************************************)
(* C40  A collection built without a total count and changed by add,       *)
(* remove, toggle and clear only has a total count equal to its length in  *)
(* every state; after clear() both are 0 and hasMore is false.             *)
(***************************************************************************)
CountIsLength == LiveCollection /\ inst["$count"] = length

\* the collection as the constructor leaves it when no count is given
BuiltWithoutCount ==
  /\ LiveCollection
  /\ lastCall.op = "constructor" /\ lastCall.options = NoOptions

\* a step from a state where the two are equal ends in one where they are
CountFollowsLength == CountIsLength => CountIsLength'

\* C40: the total count starts as the length and every operation keeps the
\* two equal
C40_CountIsLength ==
  [](BuiltWithoutCount => CountIsLength) /\ [][CountFollowsLength]_vars

\* a collection holding one item, its total count 1, was cleared: it is
\* empty, its total count is 1 and hasMore is true
C40_ClearedKeepsCount ==
  /\ LiveCollection
  /\ lastCall.op = "clear"
  /\ length = 0 /\ inst["$count"] = 1 /\ hasMore

====
